---- MODULE Spec2Model ----
(***************************************************************************)
(* A model of csvq, a small relational-algebra engine over iterables.      *)
(*                                                                         *)
(* The program state is a heap of Python objects (relations and the        *)
(* iterators they hold), addressed by their position in the sequence       *)
(* `heap`.  Every `__next__` is an operator that takes the heap and an     *)
(* object id and gives back the new heap together with the outcome of the  *)
(* call: a tuple, the end of the sequence (StopIteration) or an error.     *)
(* Positions inside tuples and schemas are 1-based here and 0-based in the *)
(* Python source.                                                          *)
(***************************************************************************)
EXTENDS Integers, Sequences, FiniteSets, TLC

VARIABLES
    heap,            \* the objects constructed so far
    got,             \* per object: the tuples the client has pulled from it
    last,            \* per object: outcome of the client's latest pull
    made,            \* per object: the call that constructed it
    call,            \* the client's latest API call and how it ended
    generator_stop   \* the interpreter applies PEP 479 to generators

vars == <<heap, got, last, made, call, generator_stop>>

-----------------------------------------------------------------------------
(* Bounds of the model.                                                    *)

MaxRows == 2      \* rows of an input relation
MatObjs == 4      \* objects in a run of SpecMat
MaxDrains == 2    \* times evaluate() is applied to one source in SpecOnce
AlgObjs == 7      \* objects in a run of SpecAlg
MaxFed == 3       \* values fed to an aggregator in SpecVariance

-----------------------------------------------------------------------------
(* Scalar values.  A value carries its dynamic Python type.  `v` is the    *)
(* number itself for an int, the number of halves for a float (3 is 1.5),  *)
(* and for a str it identifies the text: `of` says whether the text is the *)
(* canonical text of the int v ("1"), of the float v/2 ("1.5"), or the     *)
(* v-th non-numeric word.                                                  *)

Int_(n) == [ty |-> "int", v |-> n, of |-> "int"]
Float_(h) == [ty |-> "float", v |-> h, of |-> "float"]
Text(of, n) == [ty |-> "str", v |-> n, of |-> of]

NoValue == [ty |-> "none", v |-> 0, of |-> "none"]

\* int(x), float(x), str(x): the constructor of a column type applied to x.
CanConvert(type, x) ==
    CASE type = "str" -> TRUE
      [] type = "int" -> x.ty \in {"int", "float"} \/ (x.ty = "str" /\ x.of = "int")
      [] type = "float" -> x.ty \in {"int", "float"} \/ (x.ty = "str" /\ x.of \in {"int", "float"})
      [] OTHER -> FALSE

Trunc(h) == IF h >= 0 THEN h \div 2 ELSE -((-h) \div 2)

Convert(type, x) ==
    CASE type = "str" ->
            IF x.ty = "str" THEN x ELSE Text(x.ty, x.v)
      [] type = "int" ->
            IF x.ty = "float" THEN Int_(Trunc(x.v)) ELSE Int_(x.v)
      [] type = "float" ->
            IF x.ty = "int" \/ (x.ty = "str" /\ x.of = "int")
            THEN Float_(2 * x.v) ELSE Float_(x.v)
      [] OTHER -> NoValue

\* Floats that are not halves: an exact ratio <<num, den>> in lowest terms
\* (of = "ratio"), and float('nan').  A float's rounding is not modelled.
NaN == [ty |-> "float", v |-> 0, of |-> "nan"]

RECURSIVE GCD(_, _)
GCD(x, y) == IF y = 0 THEN x ELSE GCD(y, x % y)

Abs(x) == IF x < 0 THEN -x ELSE x

\* The ratio num / den (den > 0) in lowest terms
QNorm(num, den) ==
    LET g == GCD(Abs(num), den)
    IN  IF g = 0 THEN <<0, 1>> ELSE <<num \div g, den \div g>>

QAdd(p, q) == QNorm(p[1] * q[2] + q[1] * p[2], p[2] * q[2])
QSub(p, q) == QNorm(p[1] * q[2] - q[1] * p[2], p[2] * q[2])
QMul(p, q) == QNorm(p[1] * q[1], p[2] * q[2])
QDiv(p, n) == QNorm(p[1], p[2] * n)

\* The number an int or float value stands for
Q(x) == IF x.ty = "int" THEN <<x.v, 1>> ELSE QNorm(x.v, 2)

\* The float value of the ratio q
Real(q) ==
    IF q[2] = 1 THEN Float_(2 * q[1])
    ELSE IF q[2] = 2 THEN Float_(q[1])
         ELSE [ty |-> "float", v |-> q, of |-> "ratio"]

\* x + y of ints and floats (halves)
Plus(x, y) ==
    IF x.ty = "int" /\ y.ty = "int" THEN Int_(x.v + y.v) ELSE Real(QAdd(Q(x), Q(y)))

-----------------------------------------------------------------------------
(* Attributes and schemas.                                                 *)

Attribute(name, type) == [name |-> name, type |-> type]

names(attributes) == [i \in DOMAIN attributes |-> attributes[i].name]

NameSet(attributes) == {attributes[i].name : i \in DOMAIN attributes}

\* Relation.__init__ with index=None: {a.name(): i for (i, a) in enumerate(attributes)};
\* a later column of the same name overwrites the earlier entry.
Relation_index(attributes) ==
    [n \in NameSet(attributes) |->
        CHOOSE i \in DOMAIN attributes :
            /\ attributes[i].name = n
            /\ \A j \in DOMAIN attributes : attributes[j].name = n => j <= i]

HasName(r, name) == name \in DOMAIN r.index

\* Relation.attribute(name): self._attributes[self.index(name)]
attribute(r, name) == r.attrs[r.index[name]]

-----------------------------------------------------------------------------
(* Heap objects.  One record shape for all kinds; a kind uses the fields   *)
(* its class has.                                                          *)

NoPred == [name |-> "", v |-> NoValue, neg |-> FALSE]

Blank ==
    [kind |-> "none",
     attrs |-> <<>>,       \* Relation._attributes
     index |-> <<>>,       \* Relation._index
     data |-> <<>>,        \* InMemoryRelation._data; the lines of a file
     pos |-> 0,            \* items consumed (file, list iterator); current input (chain)
     done |-> FALSE,       \* an exhausted list iterator, chain or generator
     itrs |-> <<>>,        \* _itr, _itrs, (_ritr, _citr)
     rels |-> <<>>,        \* relations an object refers to without iterating them yet
     idx |-> <<>>,         \* _keep, _idx
     fs |-> <<>>,          \* _fs
     v |-> <<>>,           \* Fold._v; the state of the aggregators in Aggregate._fs
     pred |-> NoPred,      \* _predicate
     left_key |-> <<>>,    \* HashNaturalJoin._left_key
     idx_right |-> <<>>,   \* HashNaturalJoin._idx_right
     right_hash |-> <<>>,  \* HashNaturalJoin._right_hash
     pending |-> <<>>,     \* a join generator's frame: joined rows not yet yielded
     open |-> FALSE,       \* FileStreamRelation._file is open
     list |-> 0]           \* the identity of the list object _data refers to

Res(h, tag, t) == [h |-> h, tag |-> tag, t |-> t]

New(h, o) == [h |-> Append(h, o), id |-> Len(h) + 1]

\* Caller-supplied functions.  A predicate [name, v, neg] is
\* lambda t: t(name) == v (or != when neg); Row.__call__ resolves the name
\* through the index of the relation the Row was made for.
Row(r, t, name) == t[r.index[name]]

Predicate(p, r, t) == (Row(r, t, p.name) = p.v) # p.neg

\* A row function [name, add] is lambda t: t(name) + add on an int column.
Fn(f, r, t) == Int_(Row(r, t, f.name).v + f.add)

\* A combining function [name, mul] is lambda acc, t: mul * acc + t(name)
FoldFn(f, acc, r, t) == Int_(f.mul * acc.v + Row(r, t, f.name).v)

-----------------------------------------------------------------------------
(* iter(): the iterator a relation hands out.                              *)

\* A relation that hands out its one cursor again: the new iterator
\* carries on where the furthest earlier one stands.
InMemoryRelation_iter_resumed(h, o) ==
    LET earlier == {i \in DOMAIN h : h[i].kind = "listiter" /\ h[i].rels = <<o>>}
        far == IF earlier = {} THEN 0
               ELSE CHOOSE p \in {h[i].pos : i \in earlier} :
                        \A i \in earlier : h[i].pos <= p
    IN  New(h, [Blank EXCEPT !.kind = "listiter", !.rels = <<o>>, !.pos = far])

\* InMemoryRelation.__iter__: iter(self._data), a new list iterator.
InMemoryRelation_iter(h, o) ==
    New(h, [Blank EXCEPT !.kind = "listiter", !.rels = <<o>>])

\* HashNaturalJoin.__iter__ is a generator function: each call makes a new
\* generator, all of them drawing from the one self._itr.
HashNaturalJoin_iter(h, o) ==
    New(h, [Blank EXCEPT !.kind = "joingen", !.rels = <<o>>])

\* An __iter__ that rewinds: the list iterators the operator holds start
\* over, as if it had taken iter(in_relation) anew.
self_iter_rewound(h, o) ==
    [h |-> [i \in DOMAIN h |->
               IF h[i].kind = "listiter" /\ \E k \in DOMAIN h[o].itrs : h[o].itrs[k] = i
               THEN [h[i] EXCEPT !.pos = 0, !.done = FALSE]
               ELSE h[i]],
     id |-> o]

\* Fold.__iter__ is a generator function: each call makes a new generator
\* over the one Fold object.
Fold_iter(h, o) ==
    New(h, [Blank EXCEPT !.kind = "foldgen", !.rels = <<o>>])

\* Aggregate.__iter__ is a generator function too.
Aggregate_iter(h, o) ==
    New(h, [Blank EXCEPT !.kind = "agggen", !.rels = <<o>>])

\* __iter__ of the file stream and of the lazy operators: return self.
self_iter(h, o) == [h |-> h, id |-> o]

iter(h, o) ==
    CASE h[o].kind = "mem" -> InMemoryRelation_iter(h, o)
      [] h[o].kind = "join" -> HashNaturalJoin_iter(h, o)
      [] h[o].kind = "fold" -> Fold_iter(h, o)
      [] h[o].kind = "agg" -> Aggregate_iter(h, o)
      [] OTHER -> self_iter(h, o)

-----------------------------------------------------------------------------
(* next(): one pull.                                                       *)

RECURSIVE next(_, _)

\* next( iterator ): the built-in, which calls the iterator's __next__
builtin_next(h, it) == next(h, it)

\* The iterator of a Python list: once it has run off the end it stays
\* exhausted.
list_iterator_next(h, o) ==
    LET it == h[o]
        list == h[it.rels[1]].data
    IN  IF it.done THEN Res(h, "stop", <<>>)
        ELSE IF it.pos < Len(list)
             THEN Res([h EXCEPT ![o].pos = @ + 1], "tuple", list[it.pos + 1])
             ELSE Res([h EXCEPT ![o].done = TRUE], "stop", <<>>)

\* A file stream that drops the line after the one it returns
FileStreamRelation_next_dropping(h, o) ==
    LET f == h[o]
    IN  IF ~f.open THEN Res(h, "ValueError", <<>>)
        ELSE IF f.pos >= Len(f.data) THEN Res(h, "stop", <<>>)
        ELSE LET line == f.data[f.pos + 1]
                 h1 == [h EXCEPT ![o].pos = IF @ + 2 <= Len(f.data) THEN @ + 2 ELSE @ + 1]
             IN  IF Len(line) > Len(f.attrs) THEN Res(h1, "IndexError", <<>>)
                 ELSE IF \E i \in DOMAIN line : ~CanConvert(f.attrs[i].type, line[i])
                      THEN Res(h1, "ValueError", <<>>)
                      ELSE Res(h1, "tuple",
                               [i \in DOMAIN line |-> Convert(f.attrs[i].type, line[i])])

\* FileStreamRelation.__next__: the next line, split, each field converted
\* by the constructor of its column's type.
FileStreamRelation_next(h, o) ==
    LET f == h[o]
    IN  IF ~f.open THEN Res(h, "ValueError", <<>>)
        ELSE IF f.pos >= Len(f.data) THEN Res(h, "stop", <<>>)
        ELSE LET line == f.data[f.pos + 1]
                 h1 == [h EXCEPT ![o].pos = @ + 1]
             IN  IF Len(line) > Len(f.attrs) THEN Res(h1, "IndexError", <<>>)
                 ELSE IF \E i \in DOMAIN line : ~CanConvert(f.attrs[i].type, line[i])
                      THEN Res(h1, "ValueError", <<>>)
                      ELSE Res(h1, "tuple",
                               [i \in DOMAIN line |-> Convert(f.attrs[i].type, line[i])])

\* A projection that keeps the leading columns, whatever was asked for
Projection_next_leading(h, o) ==
    LET r == builtin_next(h, h[o].itrs[1])
        keep == h[o].idx
    IN  IF r.tag # "tuple" THEN r
        ELSE Res(r.h, "tuple", [i \in DOMAIN keep |-> r.t[i]])

Projection_next(h, o) ==
    LET r == builtin_next(h, h[o].itrs[1])
        keep == h[o].idx
    IN  IF r.tag # "tuple" THEN r
        ELSE Res(r.h, "tuple", [i \in DOMAIN keep |-> r.t[keep[i]]])

\* A selection that ends at the first tuple the predicate rejects
Selection_next_ending(h, o) ==
    LET r == builtin_next(h, h[o].itrs[1])
    IN  IF r.tag # "tuple" THEN r
        ELSE IF Predicate(h[o].pred, h[o], r.t) THEN r
             ELSE Res(r.h, "stop", <<>>)

RECURSIVE Selection_next(_, _)
Selection_next(h, o) ==
    LET r == builtin_next(h, h[o].itrs[1])
    IN  IF r.tag # "tuple" THEN r
        ELSE IF Predicate(h[o].pred, h[o], r.t) THEN r
             ELSE Selection_next(r.h, o)

Rename_next(h, o) == builtin_next(h, h[o].itrs[1])

\* tuple( next(itr, None) for itr in self._itrs ): every iterator is pulled,
\* in order; an error other than StopIteration ends the pull at once.
RECURSIVE next_each(_, _, _)
next_each(h, itrs, ts) ==
    IF itrs = <<>> THEN [h |-> h, tag |-> "ok", ts |-> ts]
    ELSE LET r == builtin_next(h, Head(itrs))
         IN  IF r.tag \notin {"tuple", "stop"} THEN [h |-> r.h, tag |-> r.tag, ts |-> ts]
             ELSE next_each(r.h, Tail(itrs),
                            Append(ts, [none |-> r.tag = "stop", t |-> r.t]))

RECURSIVE Flatten(_)
Flatten(ts) == IF ts = <<>> THEN <<>> ELSE Head(ts).t \o Flatten(Tail(ts))

\* An HCat that ends as soon as one input does
HCat_next_shortest(h, o) ==
    LET p == next_each(h, h[o].itrs, <<>>)
        stopped == {i \in DOMAIN p.ts : p.ts[i].none}
    IN  IF p.tag # "ok" THEN Res(p.h, p.tag, <<>>)
        ELSE IF stopped # {} THEN Res(p.h, "stop", <<>>)
             ELSE Res(p.h, "tuple", Flatten(p.ts))

HCat_next(h, o) ==
    LET p == next_each(h, h[o].itrs, <<>>)
        stopped == {i \in DOMAIN p.ts : p.ts[i].none}
    IN  IF p.tag # "ok" THEN Res(p.h, p.tag, <<>>)
        ELSE IF stopped # {}
             THEN IF stopped # DOMAIN p.ts
                  THEN Res(p.h, "RuntimeError", <<>>)
                  ELSE Res(p.h, "stop", <<>>)
             ELSE Res(p.h, "tuple", Flatten(p.ts))

\* itertools.chain.from_iterable( iter(r) for r in relations ): iter(r) is
\* taken when the chain reaches r, not before.
RECURSIVE VCat_next(_, _)
VCat_next(h, o) ==
    LET v == h[o]
    IN  IF v.done THEN Res(h, "stop", <<>>)
        ELSE IF v.itrs = <<>>
             THEN IF v.pos = Len(v.rels)
                  THEN Res([h EXCEPT ![o].done = TRUE], "stop", <<>>)
                  ELSE LET it == iter(h, v.rels[v.pos + 1])
                       IN  VCat_next([it.h EXCEPT ![o].pos = @ + 1,
                                                  ![o].itrs = <<it.id>>], o)
             ELSE LET r == builtin_next(h, v.itrs[1])
                  IN  IF r.tag = "stop"
                      THEN VCat_next([r.h EXCEPT ![o].itrs = <<>>], o)
                      ELSE r

\* An assignment by position: the i-th field of the changes tuple goes to
\* the i-th field of the base tuple
RECURSIVE Assign_row_positional(_, _, _)
Assign_row_positional(u, tc, idx) ==
    IF idx = <<>> THEN u
    ELSE Assign_row_positional([u EXCEPT ![Head(idx)[2]] = tc[Head(idx)[2]]], tc, Tail(idx))

\* u = list(tr); for (r, c) in self._idx: u[r] = tc[c]
RECURSIVE Assign_row(_, _, _)
Assign_row(u, tc, idx) ==
    IF idx = <<>> THEN u
    ELSE Assign_row([u EXCEPT ![Head(idx)[1]] = tc[Head(idx)[2]]], tc, Tail(idx))

Assign_next(h, o) ==
    LET p == next_each(h, h[o].itrs, <<>>)
    IN  IF p.tag # "ok" THEN Res(p.h, p.tag, <<>>)
        ELSE LET tr == p.ts[1]
                 tc == p.ts[2]
             IN  IF tr.none \/ tc.none
                 THEN IF tr.none /\ tc.none
                      THEN Res(p.h, "stop", <<>>)
                      ELSE Res(p.h, "RuntimeError", <<>>)
                 ELSE Res(p.h, "tuple", Assign_row(tr.t, tc.t, h[o].idx))

RECURSIVE AlterType_row(_, _, _)
AlterType_row(t, attrs, idx) ==
    IF idx = <<>> THEN t
    ELSE AlterType_row([t EXCEPT ![Head(idx)] = Convert(attrs[Head(idx)].type, @)],
                       attrs, Tail(idx))

\* An AlterType that passes over a tuple it cannot convert and goes on to
\* the next one
RECURSIVE AlterType_next_skipping(_, _)
AlterType_next_skipping(h, o) ==
    LET r == builtin_next(h, h[o].itrs[1])
        a == h[o]
    IN  IF r.tag # "tuple" THEN r
        ELSE IF \E k \in DOMAIN a.idx : ~CanConvert(a.attrs[a.idx[k]].type, r.t[a.idx[k]])
             THEN AlterType_next_skipping(r.h, o)
             ELSE Res(r.h, "tuple", AlterType_row(r.t, a.attrs, a.idx))

\* The columns are converted in order; the first field that its type's
\* constructor rejects raises.
AlterType_next(h, o) ==
    LET r == builtin_next(h, h[o].itrs[1])
        a == h[o]
    IN  IF r.tag # "tuple" THEN r
        ELSE IF \E k \in DOMAIN a.idx : ~CanConvert(a.attrs[a.idx[k]].type, r.t[a.idx[k]])
             THEN Res(r.h, "ValueError", <<>>)
             ELSE Res(r.h, "tuple", AlterType_row(r.t, a.attrs, a.idx))

\* tuple( f( Row( self._in_relation, t ) ) for f in self._fs )
Map_next(h, o) ==
    LET r == builtin_next(h, h[o].itrs[1])
        m == h[o]
    IN  IF r.tag # "tuple" THEN r
        ELSE Res(r.h, "tuple", [i \in DOMAIN m.fs |-> Fn(m.fs[i], h[m.rels[1]], r.t)])

\* An update whose functions read the tuple as updated so far
RECURSIVE Update_row_running(_, _, _, _, _)
Update_row_running(tprime, t, u, i, n) ==
    IF i > n THEN tprime
    ELSE Update_row_running([tprime EXCEPT ![u.idx[i]] = Fn(u.fs[i], u, tprime)],
                            t, u, i + 1, n)

\* tprime[self._idx[i]] = f( Row( self, t ) ), every f reading t itself.
RECURSIVE Update_row(_, _, _, _, _)
Update_row(tprime, t, u, i, n) ==
    IF i > n THEN tprime
    ELSE Update_row([tprime EXCEPT ![u.idx[i]] = Fn(u.fs[i], u, t)], t, u, i + 1, n)

Update_next(h, o) ==
    LET r == builtin_next(h, h[o].itrs[1])
        u == h[o]
    IN  IF r.tag # "tuple" THEN r
        ELSE Res(r.h, "tuple", Update_row(r.t, r.t, u, 1, Len(u.fs)))

\* HashNaturalJoin._join_row
_join_row(j, l, r) == l \o [i \in DOMAIN j.idx_right |-> r[j.idx_right[i]]]

\* A join that fetches the probe tuple after the matching one before it
\* yields
RECURSIVE HashNaturalJoin_next_ahead(_, _)
HashNaturalJoin_next_ahead(h, o) ==
    LET g == h[o]
        j == h[g.rels[1]]
    IN  IF g.done THEN Res(h, "stop", <<>>)
        ELSE IF g.pending # <<>>
             THEN Res([h EXCEPT ![o].pending = Tail(@)], "tuple", Head(g.pending))
             ELSE LET r == builtin_next(h, j.itrs[1])
                  IN  IF r.tag = "tuple"
                      THEN LET key == [i \in DOMAIN j.left_key |-> r.t[j.left_key[i]]]
                           IN  IF key \in DOMAIN j.right_hash
                               THEN LET rs == j.right_hash[key]
                                    IN  HashNaturalJoin_next_ahead(
                                            [builtin_next(r.h, j.itrs[1]).h EXCEPT
                                                ![o].pending =
                                                    [i \in DOMAIN rs |->
                                                        _join_row(j, r.t, rs[i])]],
                                            o)
                               ELSE HashNaturalJoin_next_ahead(r.h, o)
                      ELSE IF r.tag = "stop"
                           THEN Res([r.h EXCEPT ![o].done = TRUE],
                                    IF generator_stop THEN "RuntimeError" ELSE "stop", <<>>)
                           ELSE Res([r.h EXCEPT ![o].done = TRUE], r.tag, <<>>)

\* One resumption of the generator HashNaturalJoin.__iter__.  When the
\* probe side ends, next(self._itr) raises StopIteration inside the
\* generator body: it leaves the generator as it is, or as a RuntimeError
\* where PEP 479 is in force.
RECURSIVE HashNaturalJoin_next(_, _)
HashNaturalJoin_next(h, o) ==
    LET g == h[o]
        j == h[g.rels[1]]
    IN  IF g.done THEN Res(h, "stop", <<>>)
        ELSE IF g.pending # <<>>
             THEN Res([h EXCEPT ![o].pending = Tail(@)], "tuple", Head(g.pending))
             ELSE LET r == builtin_next(h, j.itrs[1])
                  IN  IF r.tag = "tuple"
                      THEN LET key == [i \in DOMAIN j.left_key |-> r.t[j.left_key[i]]]
                           IN  IF key \in DOMAIN j.right_hash
                               THEN LET rs == j.right_hash[key]
                                    IN  HashNaturalJoin_next(
                                            [r.h EXCEPT ![o].pending =
                                                [i \in DOMAIN rs |-> _join_row(j, r.t, rs[i])]],
                                            o)
                               ELSE HashNaturalJoin_next(r.h, o)
                      ELSE IF r.tag = "stop"
                           THEN Res([r.h EXCEPT ![o].done = TRUE],
                                    IF generator_stop THEN "RuntimeError" ELSE "stop", <<>>)
                           ELSE Res([r.h EXCEPT ![o].done = TRUE], r.tag, <<>>)

\* for i in range(0, len(self._v)):
\*     self._v[i] = self._fs[i]( self._v[i], Row( self._in_relation, t ) )
Fold_row(v, fs, r, t) == [i \in DOMAIN v |-> FoldFn(fs[i], v[i], r, t)]

RECURSIVE Fold_loop(_, _, _)

\* The body of the loop for the outcome r of next(it)
Fold_body(r, f, it) ==
    IF r.tag # "tuple" THEN [h |-> r.h, tag |-> r.tag]
    ELSE Fold_loop([r.h EXCEPT ![f].v = Fold_row(@, r.h[f].fs, r.h[r.h[f].rels[1]], r.t)],
                   f, it)

\* for t in self._in_relation: ... : the loop of Fold.__iter__ over the
\* iterator it, to the end of the input or to the first error
Fold_loop(h, f, it) == Fold_body(builtin_next(h, it), f, it)

\* yield tuple( self._v ), or the loop's error
Fold_yield(l, o, f) ==
    IF l.tag = "stop"
    THEN Res([l.h EXCEPT ![o].pos = 1], "tuple", l.h[f].v)
    ELSE Res([l.h EXCEPT ![o].done = TRUE], l.tag, <<>>)

\* for t in self._in_relation: the loop over a new iterator
Fold_over(it, f) == Fold_loop(it.h, f, it.id)

\* One resumption of the generator Fold.__iter__.  The first runs the whole
\* loop over iter(self._in_relation), writing self._v, and stops at the
\* yield; the second runs off the end of the body.
Fold_next(h, o) ==
    IF h[o].done THEN Res(h, "stop", <<>>)
    ELSE IF h[o].pos = 1 THEN Res([h EXCEPT ![o].done = TRUE], "stop", <<>>)
         ELSE Fold_yield(Fold_over(iter(h, h[h[o].rels[1]].rels[1]), h[o].rels[1]),
                         o, h[o].rels[1])

\* The aggregator classes.  An aggregator object's fields: n (_n),
\* m (_m, _mean), m2 (_m2), x (_max, _min, _sum).
Aggregator(f) ==
    [n |-> 0, m |-> <<0, 1>>, m2 |-> <<0, 1>>,
     x |-> IF f = "Sum" THEN Int_(0) ELSE NoValue]

\* f.value_type( input_type )
value_type(f, input_type) == IF f = "Count" THEN "int" ELSE input_type

\* The arithmetic of Mean, Sum and Variance needs a number
Accepts(f, x) == f \in {"Count", "Max", "Min"} \/ x.ty \in {"int", "float"}

\* A Variance that divides the squared distance from the running mean
\* taken before the update by n, for every value fed
Variance_call_naive(s, x) ==
    LET n == s.n + 1
        d == QSub(Q(x), s.m)
    IN  [s EXCEPT !.n = n, !.m = QAdd(s.m, QDiv(d, n)), !.m2 = QAdd(s.m2, QMul(d, d))]

\* Variance.__call__
Variance_call(s, x) ==
    LET n == s.n + 1
        d == QSub(Q(x), s.m)
        mean == QAdd(s.m, QDiv(d, n))
        d2 == QSub(Q(x), mean)
    IN  [s EXCEPT !.n = n, !.m = mean, !.m2 = QAdd(s.m2, QMul(d, d2))]

\* An aggregator object called with x
Feed(f, s, x) ==
    CASE f = "Count" -> [s EXCEPT !.n = @ + 1]
      [] f = "Max" -> [s EXCEPT !.x = IF @ = NoValue \/ Q(x)[1] * Q(@)[2] > Q(@)[1] * Q(x)[2]
                                      THEN x ELSE @]
      [] f = "Min" -> [s EXCEPT !.x = IF @ = NoValue \/ Q(x)[1] * Q(@)[2] < Q(@)[1] * Q(x)[2]
                                      THEN x ELSE @]
      [] f = "Mean" -> [s EXCEPT !.n = @ + 1,
                                 !.m = QAdd(@, QDiv(QSub(Q(x), @), s.n + 1))]
      [] f = "Sum" -> [s EXCEPT !.x = Plus(@, x)]
      [] f = "Variance" -> Variance_call(s, x)

\* Variance.value
Variance_value(s) ==
    IF s.n = 0 THEN NaN
    ELSE IF s.n = 1 THEN Float_(0)
         ELSE Real(QDiv(s.m2, s.n - 1))

\* An aggregator object's value()
Value(f, s) ==
    CASE f = "Count" -> Int_(s.n)
      [] f \in {"Max", "Min", "Sum"} -> s.x
      [] f = "Mean" -> Real(s.m)
      [] f = "Variance" -> Variance_value(s)

\* A Count that counts the fields that are not zero
Aggregate_feed_nonzero(v, fs, idx, t, i) ==
    [k \in DOMAIN v |->
        IF k < i /\ (fs[k] # "Count" \/ t[idx[k]].v # 0)
        THEN Feed(fs[k], v[k], t[idx[k]]) ELSE v[k]]

\* for (i, f) in self._fs: f( t[i] ), up to the aggregator before the i-th
Aggregate_feed(v, fs, idx, t, i) ==
    [k \in DOMAIN v |-> IF k < i THEN Feed(fs[k], v[k], t[idx[k]]) ELSE v[k]]

RECURSIVE Aggregate_loop(_, _)

\* The body of the loop for the outcome r of next(self._itr): every
\* aggregator is called with its field, up to the first that refuses it
Aggregate_body(r, a) ==
    LET agg == r.h[a]
        refused == {k \in DOMAIN agg.fs : ~Accepts(agg.fs[k], r.t[agg.idx[k]])}
    IN  IF r.tag # "tuple" THEN [h |-> r.h, tag |-> r.tag]
        ELSE IF refused # {}
             THEN [h |-> [r.h EXCEPT ![a].v =
                             Aggregate_feed(agg.v, agg.fs, agg.idx, r.t,
                                            CHOOSE k \in refused : \A j \in refused : k <= j)],
                   tag |-> "TypeError"]
             ELSE Aggregate_loop(
                      [r.h EXCEPT ![a].v =
                          Aggregate_feed(agg.v, agg.fs, agg.idx, r.t, Len(agg.fs) + 1)], a)

\* for t in self._itr: ... : the loop of Aggregate.__iter__, to the end of
\* the input or to the first error
Aggregate_loop(h, a) == Aggregate_body(builtin_next(h, h[a].itrs[1]), a)

\* yield tuple( f.value() for (i, f) in self._fs ), or the loop's error
Aggregate_yield(l, o, a) ==
    IF l.tag = "stop"
    THEN Res([l.h EXCEPT ![o].pos = 1], "tuple",
             [k \in DOMAIN l.h[a].fs |-> Value(l.h[a].fs[k], l.h[a].v[k])])
    ELSE Res([l.h EXCEPT ![o].done = TRUE], l.tag, <<>>)

\* One resumption of the generator Aggregate.__iter__
Aggregate_next(h, o) ==
    IF h[o].done THEN Res(h, "stop", <<>>)
    ELSE IF h[o].pos = 1 THEN Res([h EXCEPT ![o].done = TRUE], "stop", <<>>)
         ELSE Aggregate_yield(Aggregate_loop(h, h[o].rels[1]), o, h[o].rels[1])

next(h, o) ==
    CASE h[o].kind = "listiter" -> list_iterator_next(h, o)
      [] h[o].kind = "file" -> FileStreamRelation_next(h, o)
      [] h[o].kind = "proj" -> Projection_next(h, o)
      [] h[o].kind = "sel" -> Selection_next(h, o)
      [] h[o].kind = "rename" -> Rename_next(h, o)
      [] h[o].kind = "hcat" -> HCat_next(h, o)
      [] h[o].kind = "vcat" -> VCat_next(h, o)
      [] h[o].kind = "assign" -> Assign_next(h, o)
      [] h[o].kind = "alter" -> AlterType_next(h, o)
      [] h[o].kind = "map" -> Map_next(h, o)
      [] h[o].kind = "update" -> Update_next(h, o)
      [] h[o].kind = "joingen" -> HashNaturalJoin_next(h, o)
      [] h[o].kind = "foldgen" -> Fold_next(h, o)
      [] h[o].kind = "agggen" -> Aggregate_next(h, o)

\* Pull until the iterator ends or fails: list( t for t in relation )
RECURSIVE drain(_, _, _)
drain(h, it, acc) ==
    LET r == builtin_next(h, it)
    IN  IF r.tag = "tuple" THEN drain(r.h, it, Append(acc, r.t))
        ELSE [h |-> r.h, tag |-> r.tag, ts |-> acc]

-----------------------------------------------------------------------------
(* Constructors.  Each gives the new heap, the error raised ("ok" when     *)
(* none) and the id of the object made.                                    *)

Made(n, err) == [h |-> n.h, err |-> err, id |-> n.id]
Raise(h, err) == [h |-> h, err |-> err, id |-> 0]

\* FileStreamRelation.__init__ on a file whose header parsed to `attributes`
FileStreamRelation_init(h, attributes, lines) ==
    Made(New(h, [Blank EXCEPT !.kind = "file", !.attrs = attributes,
                              !.index = Relation_index(attributes),
                              !.data = lines, !.open = TRUE]), "ok")

\* Relation.parse_attributes.  A header is a sequence of tokens
\* [name, type]: type is the annotation behind the type delimiter, "" when
\* the token has none; typed says whether type_delim is given.
parse_attributes(header, typed) ==
    IF ~typed
    THEN [err |-> "ok",
          attrs |-> [i \in DOMAIN header |->
                        Attribute(IF header[i].type = "" THEN header[i].name
                                  ELSE header[i].name \o ":" \o header[i].type, "str")]]
    ELSE IF \E i \in DOMAIN header : header[i].type = ""
         THEN [err |-> "TypeError", attrs |-> <<>>]
         ELSE IF \E i \in DOMAIN header : header[i].type \notin {"float", "int", "str"}
              THEN [err |-> "KeyError", attrs |-> <<>>]
              ELSE [err |-> "ok",
                    attrs |-> [i \in DOMAIN header |->
                                  Attribute(header[i].name, header[i].type)]]

\* FileStreamRelation.__init__: the file is opened, then its first line is
\* parsed; when that raises, the opened file stays as it is.
FileStreamRelation_open(h, header, lines, typed) ==
    LET p == parse_attributes(header, typed)
        f == New(h, [Blank EXCEPT !.kind = "file", !.data = lines, !.open = TRUE,
                                  !.attrs = p.attrs, !.index = Relation_index(p.attrs)])
    IN  Made(f, p.err)

\* FileStreamRelation.close
close(h, o) == [h EXCEPT ![o].open = FALSE]

\* with stream( ... ) / stream_typed( ... ) as s: the context manager's
\* generator runs to its yield.  An object of kind "ctx" is the generator:
\* pos = 1 at the yield, done once it has finished.
stream_enter(h, header, lines, typed) ==
    LET r == FileStreamRelation_open(h, header, lines, typed)
    IN  IF r.err # "ok"
        THEN Made(New(r.h, [Blank EXCEPT !.kind = "ctx", !.done = TRUE]), r.err)
        ELSE Made(New(r.h, [Blank EXCEPT !.kind = "ctx", !.rels = <<r.id>>, !.pos = 1]), "ok")

\* The block is left by an error: it is thrown into the generator at its
\* yield, which nothing encloses, so the generator ends there.
stream_throw(h, c) == [h EXCEPT ![c].done = TRUE]

\* The block is left normally: the generator resumes behind its yield and
\* runs r.close().
stream_exit(h, c) == [close(h, h[c].rels[1]) EXCEPT ![c].done = TRUE]

\* InMemoryRelation.__init__ given a list no other object refers to (a
\* literal, or the list copy_of has just built): self._data = data
InMemoryRelation_init(h, attributes, data) ==
    Made(New(h, [Blank EXCEPT !.kind = "mem", !.attrs = attributes,
                              !.index = Relation_index(attributes),
                              !.data = data, !.list = Len(h) + 1]), "ok")

\* A list object changed in place: every relation whose _data is that list
\* sees the new contents
list_write(h, l, data) ==
    [i \in DOMAIN h |->
        IF h[i].kind = "mem" /\ h[i].list = l THEN [h[i] EXCEPT !.data = data] ELSE h[i]]

\* The < of two tuples of numbers: Python compares tuples lexicographically
RECURSIVE Before(_, _)
Before(k1, k2) ==
    IF k1 = <<>> \/ k2 = <<>> THEN k1 = <<>> /\ k2 # <<>>
    ELSE IF Head(k1) = Head(k2) THEN Before(Tail(k1), Tail(k2))
         ELSE Q(Head(k1))[1] * Q(Head(k2))[2] < Q(Head(k2))[1] * Q(Head(k1))[2]

\* operator.itemgetter( *idx )
itemgetter(idx, t) == [i \in DOMAIN idx |-> t[idx[i]]]

\* t put behind the elements of the sorted list that it does not have to
\* precede
Insert(sorted, t, idx, reverse) ==
    LET stay == {i \in DOMAIN sorted :
                    IF reverse
                    THEN ~Before(itemgetter(idx, sorted[i]), itemgetter(idx, t))
                    ELSE ~Before(itemgetter(idx, t), itemgetter(idx, sorted[i]))}
        p == Cardinality(stay)
    IN  SubSeq(sorted, 1, p) \o <<t>> \o SubSeq(sorted, p + 1, Len(sorted))

\* A sort that sorts ascending and then turns the list round when reverse
\* is set
RECURSIVE list_sort_reversing(_, _, _, _)
list_sort_reversing(sorted, data, idx, reverse) ==
    IF data = <<>>
    THEN IF reverse THEN [i \in DOMAIN sorted |-> sorted[Len(sorted) + 1 - i]] ELSE sorted
    ELSE list_sort_reversing(Insert(sorted, Head(data), idx, FALSE), Tail(data), idx, reverse)

\* list.sort( key, reverse ): stable, and with reverse set the elements
\* that compare equal still keep their order
RECURSIVE list_sort(_, _, _, _)
list_sort(sorted, data, idx, reverse) ==
    IF data = <<>> THEN sorted
    ELSE list_sort(Insert(sorted, Head(data), idx, reverse), Tail(data), idx, reverse)

\* InMemoryRelation.sort; key is [none, names]: None or a list of names
InMemoryRelation_sort(h, o, key, reverse) ==
    LET r == h[o]
    IN  IF key.none
        THEN [h |-> list_write(h, r.list,
                        list_sort(<<>>, r.data, [i \in DOMAIN r.attrs |-> i], reverse)),
              err |-> "ok", id |-> o]
        ELSE IF \E i \in DOMAIN key.names : ~HasName(r, key.names[i]) THEN Raise(h, "KeyError")
        ELSE IF key.names = <<>> THEN Raise(h, "TypeError")
        ELSE [h |-> list_write(h, r.list,
                        list_sort(<<>>, r.data,
                                  [i \in DOMAIN key.names |-> r.index[key.names[i]]],
                                  reverse)),
              err |-> "ok", id |-> o]

\* list( t for t in relation ) for the iterator `it` just taken
drained(it) == drain(it.h, it.id, <<>>)

\* InMemoryRelation( attributes, data = cp ) once the list d is complete
copied(d, attributes) ==
    IF d.tag = "stop"
    THEN InMemoryRelation_init(d.h, attributes, d.ts)
    ELSE Raise(d.h, d.tag)

\* A copy_of that hands the list of an in-memory relation on as it is
copy_of_sharing(h, relation) ==
    IF h[relation].kind = "mem"
    THEN Made(New(h, [Blank EXCEPT !.kind = "mem", !.attrs = h[relation].attrs,
                                   !.index = Relation_index(h[relation].attrs),
                                   !.data = h[relation].data,
                                   !.list = h[relation].list]), "ok")
    ELSE copied(drained(iter(h, relation)), h[relation].attrs)

\* InMemoryRelation.copy_of: cp = list( t for t in relation )
copy_of(h, relation) == copied(drained(iter(h, relation)), h[relation].attrs)

Projection_init(h, in_relation, keep) ==
    LET r == h[in_relation]
    IN  IF \E i \in DOMAIN keep : ~HasName(r, keep[i]) THEN Raise(h, "KeyError")
        ELSE LET attributes == [i \in DOMAIN keep |-> attribute(r, keep[i])]
                 it == iter(h, in_relation)
             IN  Made(New(it.h, [Blank EXCEPT
                        !.kind = "proj", !.attrs = attributes,
                        !.index = Relation_index(attributes),
                        !.itrs = <<it.id>>,
                        !.idx = [i \in DOMAIN attributes |-> r.index[attributes[i].name]]]),
                      "ok")

Selection_init(h, in_relation, predicate) ==
    LET r == h[in_relation]
        it == iter(h, in_relation)
    IN  Made(New(it.h, [Blank EXCEPT
                !.kind = "sel", !.attrs = r.attrs, !.index = r.index,
                !.itrs = <<it.id>>, !.pred = predicate]), "ok")

\* substitutions is a dict: a function from old names to new names
Rename_init(h, in_relation, substitutions) ==
    LET r == h[in_relation]
        renamed == [i \in DOMAIN r.attrs |->
                        IF r.attrs[i].name \in DOMAIN substitutions
                        THEN Attribute(substitutions[r.attrs[i].name], r.attrs[i].type)
                        ELSE r.attrs[i]]
        it == iter(h, in_relation)
    IN  Made(New(it.h, [Blank EXCEPT
                !.kind = "rename", !.attrs = renamed,
                !.index = Relation_index(renamed),
                !.itrs = <<it.id>>]), "ok")

\* Positions of the sequence s whose element satisfies Test, in order
\* The positions of the columns whose name is (or is not) among `among`,
\* in column order
Positions(attributes, among, in) ==
    SelectSeq([i \in DOMAIN attributes |-> i],
              LAMBDA i : (attributes[i].name \in among) = in)

\* A hash table whose lists grow at the front
RECURSIVE right_hash_of_prepended(_, _, _)
right_hash_of_prepended(ts, right_key, hash) ==
    IF ts = <<>> THEN hash
    ELSE LET t == Head(ts)
             key == [i \in DOMAIN right_key |-> t[right_key[i]]]
             v == IF key \in DOMAIN hash THEN hash[key] ELSE <<>>
         IN  right_hash_of_prepended(Tail(ts), right_key,
                 [k \in DOMAIN hash \cup {key} |->
                     IF k = key THEN <<t>> \o v ELSE hash[k]])

\* self._right_hash: key -> the build tuples of that key, in arrival order
RECURSIVE right_hash_of(_, _, _)
right_hash_of(ts, right_key, hash) ==
    IF ts = <<>> THEN hash
    ELSE LET t == Head(ts)
             key == [i \in DOMAIN right_key |-> t[right_key[i]]]
             v == IF key \in DOMAIN hash THEN hash[key] ELSE <<>>
         IN  right_hash_of(Tail(ts), right_key,
                 [k \in DOMAIN hash \cup {key} |->
                     IF k = key THEN Append(v, t) ELSE hash[k]])

\* A join that reads the build side before it compares the shared
\* columns' types
HashNaturalJoin_init_late(h, left, right) ==
    LET l == h[left]
        r == h[right]
        left_names == NameSet(l.attrs)
        idx_right == Positions(r.attrs, left_names, FALSE)
        inter == Positions(r.attrs, left_names, TRUE)
        attr_union == l.attrs \o [i \in DOMAIN idx_right |-> r.attrs[idx_right[i]]]
        rit == iter(h, right)
        d == drain(rit.h, rit.id, <<>>)
    IN  IF d.tag # "stop" THEN Raise(d.h, d.tag)
        ELSE IF \E i \in DOMAIN inter :
                   r.attrs[inter[i]].type # attribute(l, r.attrs[inter[i]].name).type
             THEN Raise(d.h, "TypeError")
             ELSE LET left_key == [i \in DOMAIN inter |-> l.index[r.attrs[inter[i]].name]]
                      right_key == [i \in DOMAIN inter |-> r.index[r.attrs[inter[i]].name]]
                      lit == iter(d.h, left)
                  IN  Made(New(lit.h, [Blank EXCEPT
                            !.kind = "join", !.attrs = attr_union,
                            !.index = Relation_index(attr_union),
                            !.idx_right = idx_right,
                            !.left_key = left_key,
                            !.right_hash = right_hash_of(d.ts, right_key, <<>>),
                            !.itrs = <<lit.id>>]), "ok")

HashNaturalJoin_init(h, left, right) ==
    LET l == h[left]
        r == h[right]
        left_names == NameSet(l.attrs)
        idx_right == Positions(r.attrs, left_names, FALSE)
        inter == Positions(r.attrs, left_names, TRUE)
        attr_union == l.attrs \o [i \in DOMAIN idx_right |-> r.attrs[idx_right[i]]]
    IN  IF \E i \in DOMAIN inter :
              r.attrs[inter[i]].type # attribute(l, r.attrs[inter[i]].name).type
        THEN Raise(h, "TypeError")
        ELSE LET left_key == [i \in DOMAIN inter |-> l.index[r.attrs[inter[i]].name]]
                 right_key == [i \in DOMAIN inter |-> r.index[r.attrs[inter[i]].name]]
                 rit == iter(h, right)
                 d == drain(rit.h, rit.id, <<>>)
             IN  IF d.tag # "stop" THEN Raise(d.h, d.tag)
                 ELSE LET lit == iter(d.h, left)
                      IN  Made(New(lit.h, [Blank EXCEPT
                                !.kind = "join", !.attrs = attr_union,
                                !.index = Relation_index(attr_union),
                                !.idx_right = idx_right,
                                !.left_key = left_key,
                                !.right_hash = right_hash_of(d.ts, right_key, <<>>),
                                !.itrs = <<lit.id>>]), "ok")

\* tuple( iter(r) for r in relations )
RECURSIVE iter_each(_, _, _)
iter_each(h, relations, ids) ==
    IF relations = <<>> THEN [h |-> h, ids |-> ids]
    ELSE LET it == iter(h, Head(relations))
         IN  iter_each(it.h, Tail(relations), Append(ids, it.id))

RECURSIVE all_attributes(_, _)
all_attributes(h, relations) ==
    IF relations = <<>> THEN <<>>
    ELSE h[Head(relations)].attrs \o all_attributes(h, Tail(relations))

HCat_init(h, relations) ==
    LET all == all_attributes(h, relations)
    IN  IF \E i, j \in DOMAIN all : i < j /\ all[i].name = all[j].name
        THEN Raise(h, "TypeError")
        ELSE LET its == iter_each(h, relations, <<>>)
             IN  Made(New(its.h, [Blank EXCEPT
                        !.kind = "hcat", !.attrs = all,
                        !.index = Relation_index(all),
                        !.itrs = its.ids]), "ok")

AttributeSet(attributes) == {attributes[i] : i \in DOMAIN attributes}

\* A VCat that chains its inputs last to first
VCat_init_reversed(h, relations) ==
    LET r1 == h[relations[1]]
    IN  IF \E k \in DOMAIN relations :
              AttributeSet(h[relations[k]].attrs) # AttributeSet(r1.attrs)
        THEN Raise(h, "TypeError")
        ELSE Made(New(h, [Blank EXCEPT
                    !.kind = "vcat", !.attrs = r1.attrs,
                    !.index = Relation_index(r1.attrs),
                    !.rels = [k \in DOMAIN relations |->
                                 relations[Len(relations) + 1 - k]]]), "ok")

VCat_init(h, relations) ==
    LET r1 == h[relations[1]]
    IN  IF \E k \in DOMAIN relations :
              AttributeSet(h[relations[k]].attrs) # AttributeSet(r1.attrs)
        THEN Raise(h, "TypeError")
        ELSE Made(New(h, [Blank EXCEPT
                    !.kind = "vcat", !.attrs = r1.attrs,
                    !.index = Relation_index(r1.attrs),
                    !.rels = relations]), "ok")

\* The changes' columns are checked in order: a missing one is a KeyError
\* (Relation.index), one of another type a TypeError.
RECURSIVE Assign_check(_, _, _)
Assign_check(r, cattrs, i) ==
    IF i > Len(cattrs) THEN "ok"
    ELSE IF ~HasName(r, cattrs[i].name) THEN "KeyError"
         ELSE IF attribute(r, cattrs[i].name) # cattrs[i] THEN "TypeError"
              ELSE Assign_check(r, cattrs, i + 1)

\* An Assign whose _idx pairs the columns of the changes with the base's
\* columns in their own order
Assign_init_in_order(h, relation, changes) ==
    LET r == h[relation]
        c == h[changes]
        err == Assign_check(r, c.attrs, 1)
    IN  IF err # "ok" THEN Raise(h, err)
        ELSE LET its == iter_each(h, <<relation, changes>>, <<>>)
             IN  Made(New(its.h, [Blank EXCEPT
                        !.kind = "assign", !.attrs = r.attrs, !.index = r.index,
                        !.idx = [i \in DOMAIN c.attrs |-> <<i, i>>],
                        !.itrs = its.ids]), "ok")

Assign_init(h, relation, changes) ==
    LET r == h[relation]
        c == h[changes]
        err == Assign_check(r, c.attrs, 1)
    IN  IF err # "ok" THEN Raise(h, err)
        ELSE LET its == iter_each(h, <<relation, changes>>, <<>>)
             IN  Made(New(its.h, [Blank EXCEPT
                        !.kind = "assign", !.attrs = r.attrs, !.index = r.index,
                        !.idx = [i \in DOMAIN c.attrs |->
                                    <<r.index[c.attrs[i].name], c.index[c.attrs[i].name]>>],
                        !.itrs = its.ids]), "ok")

\* td is a dict: a function from column names to types
AlterType_init(h, relation, td) ==
    LET r == h[relation]
        attributes == [i \in DOMAIN r.attrs |->
                          IF r.attrs[i].name \in DOMAIN td
                          THEN Attribute(r.attrs[i].name, td[r.attrs[i].name])
                          ELSE r.attrs[i]]
        it == iter(h, relation)
    IN  Made(New(it.h, [Blank EXCEPT
                !.kind = "alter", !.attrs = attributes,
                !.index = Relation_index(attributes),
                !.idx = Positions(r.attrs, DOMAIN td, TRUE),
                !.itrs = <<it.id>>]), "ok")

\* fd is a dict in insertion order: a sequence of <<key, function>>
Map_init(h, in_relation, fd) ==
    LET attributes == [i \in DOMAIN fd |-> fd[i][1]]
        it == iter(h, in_relation)
    IN  Made(New(it.h, [Blank EXCEPT
                !.kind = "map", !.attrs = attributes,
                !.index = Relation_index(attributes),
                !.rels = <<in_relation>>,
                !.itrs = <<it.id>>,
                !.fs = [i \in DOMAIN fd |-> fd[i][2]]]), "ok")

Update_init(h, in_relation, fd) ==
    LET r == h[in_relation]
        it == iter(h, in_relation)
    IN  IF \E i \in DOMAIN fd : ~HasName(r, fd[i][1]) THEN Raise(it.h, "KeyError")
        ELSE Made(New(it.h, [Blank EXCEPT
                    !.kind = "update", !.attrs = r.attrs, !.index = r.index,
                    !.itrs = <<it.id>>,
                    !.idx = [i \in DOMAIN fd |-> r.index[fd[i][1]]],
                    !.fs = [i \in DOMAIN fd |-> fd[i][2]]]), "ok")

\* A Fold that starts every column from 0
Fold_init_from_zero(h, in_relation, fd) ==
    LET attributes == [i \in DOMAIN fd |-> fd[i][1]]
    IN  Made(New(h, [Blank EXCEPT
                !.kind = "fold", !.attrs = attributes,
                !.index = Relation_index(attributes),
                !.rels = <<in_relation>>,
                !.fs = [i \in DOMAIN fd |-> fd[i][2][1]],
                !.v = [i \in DOMAIN fd |-> Int_(0)]]), "ok")

\* fd is a dict in insertion order: a sequence of <<attribute, <<f, v>>>>
Fold_init(h, in_relation, fd) ==
    LET attributes == [i \in DOMAIN fd |-> fd[i][1]]
    IN  Made(New(h, [Blank EXCEPT
                !.kind = "fold", !.attrs = attributes,
                !.index = Relation_index(attributes),
                !.rels = <<in_relation>>,
                !.fs = [i \in DOMAIN fd |-> fd[i][2][1]],
                !.v = [i \in DOMAIN fd |-> fd[i][2][2]]]), "ok")

\* attr( n, f ) of Aggregate.__init__
Aggregate_attr(r, n, f) ==
    Attribute(n \o "_" \o f, value_type(f, attribute(r, n).type))

\* aggregators is a sequence of <<column name, aggregator class>>
Aggregate_init(h, in_relation, aggregators) ==
    LET r == h[in_relation]
    IN  IF \E i \in DOMAIN aggregators : ~HasName(r, aggregators[i][1])
        THEN Raise(h, "KeyError")
        ELSE LET attributes == [i \in DOMAIN aggregators |->
                                   Aggregate_attr(r, aggregators[i][1], aggregators[i][2])]
                 it == iter(h, in_relation)
             IN  Made(New(it.h, [Blank EXCEPT
                        !.kind = "agg", !.attrs = attributes,
                        !.index = Relation_index(attributes),
                        !.itrs = <<it.id>>,
                        !.idx = [i \in DOMAIN aggregators |-> r.index[aggregators[i][1]]],
                        !.fs = [i \in DOMAIN aggregators |-> aggregators[i][2]],
                        !.v = [i \in DOMAIN aggregators |->
                                  Aggregator(aggregators[i][2])]]), "ok")

-----------------------------------------------------------------------------
(* The client: API calls as actions.  `made`, `got`, `last` and `call`     *)
(* record what the client did and saw; the program does not read them.     *)

Pad(s, n, x) == s \o [i \in 1..(n - Len(s)) |-> x]

\* An iterator a constructor or evaluate() took for itself: the client holds
\* no reference to it.
ByIter == [op |-> "internal", args |-> <<>>, par |-> <<>>, ts |-> <<>>]

Finished == {"stop", "RuntimeError", "ValueError", "IndexError", "KeyError", "TypeError"}

Kind(o) == heap[o].kind

Objects == DOMAIN heap

LazyKinds == {"proj", "sel", "rename", "hcat", "vcat", "assign", "alter", "map", "update"}

\* An API call that constructs a relation: c is the constructor's result.
Construct(c, op, args, par, ts) ==
    /\ heap' = c.h
    /\ got' = Pad(got, Len(c.h), <<>>)
    /\ last' = Pad(last, Len(c.h), "none")
    /\ made' = [i \in DOMAIN c.h |->
                   IF i \in DOMAIN made THEN made[i]
                   ELSE IF i = c.id THEN [op |-> op, args |-> args, par |-> par, ts |-> ts]
                        ELSE ByIter]
    /\ call' = [op |-> op, args |-> args, par |-> par, err |-> c.err, id |-> c.id]
    /\ UNCHANGED generator_stop

\* The tuples of the relation a constructor made
Data(c) == IF c.err = "ok" THEN c.h[c.id].data ELSE <<>>

\* The result c of InMemoryRelation.copy_of handed back to the client
Evaluated(c, o) == Construct(c, "evaluate", <<o>>, <<>>, Data(c))

\* evaluate( relation )
Evaluate(o) == Evaluated(copy_of(heap, o), o)

\* r.sort( key = key, reverse = reverse ); return r  for the copy c
sorted_copy(c, key, reverse) ==
    IF c.err # "ok" THEN c
    ELSE InMemoryRelation_sort(c.h, c.id, key, reverse)

\* The result c of api.sorted handed back to the client
SortedAs(c, o, key, reverse) ==
    Construct(c, "sorted", <<o>>, [key |-> key, reverse |-> reverse], Data(c))

\* sorted( relation, key, reverse )
Sorted(o, key, reverse) ==
    SortedAs(sorted_copy(copy_of(heap, o), key, reverse), o, key, reverse)

\* relation.sort( key, reverse ), called by the client
Sort(o, key, reverse) ==
    LET c == InMemoryRelation_sort(heap, o, key, reverse)
    IN  /\ heap' = c.h
        /\ call' = [op |-> "sort", args |-> <<o>>,
                    par |-> [key |-> key, reverse |-> reverse], err |-> c.err, id |-> c.id]
        /\ UNCHANGED <<got, last, made, generator_stop>>

\* with stream( filename ) as s / with stream_typed( filename ) as s
Stream(header, lines, typed) ==
    Construct(stream_enter(heap, header, lines, typed),
              IF typed THEN "stream_typed" ELSE "stream", <<>>, <<>>, <<>>)

\* The with block ends without an error
Exit(c) ==
    /\ heap' = stream_exit(heap, c)
    /\ call' = [op |-> "exit", args |-> <<c>>, par |-> <<>>, err |-> "ok", id |-> c]
    /\ UNCHANGED <<got, last, made, generator_stop>>

\* The error the latest call in the with block raised leaves the block
Unwind(c) ==
    /\ heap' = stream_throw(heap, c)
    /\ call' = [op |-> "exit", args |-> <<c>>, par |-> <<>>, err |-> call.err, id |-> c]
    /\ UNCHANGED <<got, last, made, generator_stop>>

\* iter( relation ), called by the client
Iterate(o) ==
    LET it == iter(heap, o)
    IN  Construct([h |-> it.h, err |-> "ok", id |-> it.id], "iter", <<o>>, <<>>, <<>>)

\* The outcome r of next( iterator ) handed back to the client
Pulled(r, o) ==
        /\ last[o] \notin Finished
        /\ heap' = r.h
        /\ got' = [Pad(got, Len(r.h), <<>>) EXCEPT
                       ![o] = IF r.tag = "tuple" THEN Append(@, r.t) ELSE @]
        /\ last' = [Pad(last, Len(r.h), "none") EXCEPT ![o] = r.tag]
        /\ made' = Pad(made, Len(r.h), ByIter)
        /\ call' = [op |-> "next", args |-> <<o>>, par |-> <<>>, err |-> r.tag, id |-> o]
        /\ UNCHANGED generator_stop

\* next( iterator ), called by the client
Pull(o) == Pulled(builtin_next(heap, o), o)

Project(o, keep) ==
    Construct(Projection_init(heap, o, keep), "project", <<o>>, keep, <<>>)

Select(o, predicate) ==
    Construct(Selection_init(heap, o, predicate), "select", <<o>>, predicate, <<>>)

RenameTo(o, substitutions) ==
    Construct(Rename_init(heap, o, substitutions), "rename", <<o>>, substitutions, <<>>)

NaturalJoin(left, right) ==
    Construct(HashNaturalJoin_init(heap, left, right), "natural_join",
              <<left, right>>, <<>>, <<>>)

HCatOf(relations) ==
    Construct(HCat_init(heap, relations), "hcat", relations, <<>>, <<>>)

VCatOf(relations) ==
    Construct(VCat_init(heap, relations), "vcat", relations, <<>>, <<>>)

AssignTo(relation, changes) ==
    Construct(Assign_init(heap, relation, changes), "assign",
              <<relation, changes>>, <<>>, <<>>)

AlterTypeOf(o, td) ==
    Construct(AlterType_init(heap, o, td), "alter_type", <<o>>, td, <<>>)

MapOver(o, fd) ==
    Construct(Map_init(heap, o, fd), "map", <<o>>, fd, <<>>)

UpdateOf(o, fd) ==
    Construct(Update_init(heap, o, fd), "update", <<o>>, fd, <<>>)

FoldOf(o, fd) ==
    Construct(Fold_init(heap, o, fd), "fold", <<o>>, fd, <<>>)

AggregateOf(o, fs) ==
    Construct(Aggregate_init(heap, o, fs), "aggregate", <<o>>, fs, <<>>)

-----------------------------------------------------------------------------
(* Inputs.                                                                 *)

IntValues == {Int_(0), Int_(1)}

\* The text of a field of a line of a typed file
IntTexts == {Text("int", 0), Text("int", 1)}

ValuesOf(type) ==
    CASE type = "int" -> IntValues
      [] type = "str" -> {Text("word", 0), Text("int", 1)}
      [] type = "float" -> {Float_(1), Float_(2)}

Rows(attributes) ==
    {t \in [DOMAIN attributes -> UNION {ValuesOf(ty) : ty \in {"int", "str", "float"}}] :
        \A i \in DOMAIN attributes : t[i] \in ValuesOf(attributes[i].type)}

Tables(attributes, n) == UNION {[1..k -> Rows(attributes)] : k \in 0..n}

\* Tables whose rows differ in their first column only
Narrow(attributes, n) ==
    {d \in Tables(attributes, n) :
        \A k \in DOMAIN d : \A i \in DOMAIN d[k] : i > 1 => d[k][i].v = 1}

Lines(attributes, n) == UNION {[1..k -> [DOMAIN attributes -> IntTexts]] : k \in 0..n}

AB == <<Attribute("a", "int"), Attribute("b", "int")>>
C_ == <<Attribute("c", "int")>>

\* The heap holding the given relations, and nothing pulled yet
Start(h) ==
    /\ heap = h
    /\ got = [i \in DOMAIN h |-> <<>>]
    /\ last = [i \in DOMAIN h |-> "none"]
    /\ made = [i \in DOMAIN h |-> [op |-> "load", args |-> <<>>, par |-> <<>>, ts |-> <<>>]]
    /\ call = [op |-> "none", args |-> <<>>, par |-> <<>>, err |-> "ok", id |-> 0]

Room(k, max) == Len(heap) + k <= max

Predicates == {[name |-> "a", v |-> Int_(1), neg |-> n] : n \in BOOLEAN}

\* The tuples a typed file holds: each field through its column's type
Typed(attributes, lines) ==
    [k \in DOMAIN lines |-> [i \in DOMAIN lines[k] |-> Convert(attributes[i].type, lines[k][i])]]

IsPrefix(s, t) == Len(s) <= Len(t) /\ s = SubSeq(t, 1, Len(s))

-----------------------------------------------------------------------------
(* Materialization: a file stream, selections over it, evaluate() and      *)
(* iterations of the evaluated relations, pulled in any interleaving.      *)

InitMat ==
    /\ \E lines \in Lines(AB, MaxRows) :
           Start(FileStreamRelation_init(<<>>, AB, lines).h)
    /\ generator_stop = TRUE

NextMat ==
    \/ \E o \in Objects, p \in Predicates :
           Kind(o) = "file" /\ Room(1, MatObjs) /\ Select(o, p)
    \/ \E o \in Objects :
           Kind(o) \in {"file", "sel"} /\ Room(1, MatObjs) /\ Evaluate(o)
    \/ \E o \in Objects : Kind(o) = "mem" /\ Room(1, MatObjs) /\ Iterate(o)
    \/ \E o \in Objects : Kind(o) = "listiter" /\ made[o].op = "iter" /\ Pull(o)

SpecMat == InitMat /\ [][NextMat]_vars

\* C1: every iteration of a relation made by evaluate() reproduces, on its
\* own and whatever other iterations are in progress, the tuples the source
\* produced while it was drained, in that order; a file drained first thing
\* produced its lines, typed.
C1_Restartable ==
    /\ \A it \in Objects :
           (Kind(it) = "listiter" /\ made[heap[it].rels[1]].op = "evaluate") =>
               LET ts == made[heap[it].rels[1]].ts
               IN  /\ IsPrefix(got[it], ts)
                   /\ last[it] = "stop" => got[it] = ts
    /\ (Len(heap) >= 2 /\ made[2].op = "evaluate") =>
           made[2].ts = Typed(heap[1].attrs, heap[1].data)

\* Two iterations of one evaluated relation of two tuples: one has ended
\* after both tuples while the other stands after its first.
C1_Witness ==
    \E i, j \in Objects :
        /\ i # j
        /\ Kind(i) = "listiter" /\ Kind(j) = "listiter"
        /\ heap[i].rels = heap[j].rels
        /\ made[heap[i].rels[1]].op = "evaluate"
        /\ last[i] = "stop" /\ Len(got[i]) = 2
        /\ last[j] = "tuple" /\ Len(got[j]) = 1

-----------------------------------------------------------------------------
(* Single-pass sources: two in-memory relations and a file stream, one of  *)
(* the lazy operators built over them, and evaluate() applied repeatedly.  *)

\* The lines of the file a relation would be written to
AsLines(data) == [k \in DOMAIN data |-> [i \in DOMAIN data[k] |-> Convert("str", data[k][i])]]

Bases == {o \in Objects : Kind(o) \in {"mem", "file"}}

Keeps == {<<"a">>, <<"b", "a">>}

MapFd == <<<<Attribute("d", "int"), [name |-> "a", add |-> 1]>>>>

UpdateFd == <<<<"a", [name |-> "b", add |-> 1]>>, <<"b", [name |-> "a", add |-> 1]>>>>

\* How many times evaluate() has drained o to its end
Drains(o) == Cardinality({m \in Objects : made[m].op = "evaluate" /\ made[m].args = <<o>>})

InitOnce ==
    /\ \E data \in Narrow(AB, MaxRows) :
           LET a == InMemoryRelation_init(<<>>, AB, data)
               b == InMemoryRelation_init(a.h, C_, [k \in DOMAIN data |-> <<data[k][1]>>])
               f == FileStreamRelation_init(b.h, AB, AsLines(data))
           IN  Start(f.h)
    /\ generator_stop = TRUE

NoOperator == \A o \in Objects : Kind(o) \notin LazyKinds

NextOnce ==
    \/ \E o \in Bases, keep \in Keeps :
           NoOperator /\ HasName(heap[o], "a") /\ Project(o, keep)
    \/ \E o \in Bases, p \in Predicates :
           NoOperator /\ HasName(heap[o], "a") /\ Select(o, p)
    \/ \E o \in Bases : NoOperator /\ RenameTo(o, "a" :> "e")
    \/ \E o \in Bases : NoOperator /\ HasName(heap[o], "a") /\ MapOver(o, MapFd)
    \/ \E o \in Bases : NoOperator /\ HasName(heap[o], "a") /\ UpdateOf(o, UpdateFd)
    \/ \E o \in Bases : NoOperator /\ AlterTypeOf(o, "a" :> "str")
    \/ \E o1, o2 \in Bases : NoOperator /\ HCatOf(<<o1, o2>>)
    \/ \E o1, o2 \in Bases : NoOperator /\ VCatOf(<<o1, o2>>)
    \/ \E o1, o2 \in Bases : NoOperator /\ AssignTo(o1, o2)
    \/ \E o \in Objects :
           /\ Kind(o) \in LazyKinds \cup {"file"}
           /\ Drains(o) < MaxDrains
           /\ Evaluate(o)

SpecOnce == InitOnce /\ [][NextOnce]_vars

SingleInput == {"proj", "sel", "rename", "alter", "map", "update"}

\* C2: of two drains of the same file stream or lazy operator the later one
\* yields no tuple, and so does the drain of a one-input operator over a
\* file stream that was drained before.
C2_SinglePass ==
    \A m1, m2 \in Objects :
        (m1 < m2 /\ made[m1].op = "evaluate" /\ made[m2].op = "evaluate") =>
            LET s1 == made[m1].args[1]
                s2 == made[m2].args[1]
            IN  /\ (s1 = s2 /\ Kind(s1) \in LazyKinds \cup {"file"}) =>
                       heap[m2].data = <<>>
                /\ (Kind(s1) = "file" /\ Kind(s2) \in SingleInput /\ heap[s2].itrs = <<s1>>) =>
                       heap[m2].data = <<>>

\* An HCat of two in-memory relations drained twice: tuples the first time,
\* none the second.
C2_Witness ==
    \E m1, m2 \in Objects :
        /\ m1 < m2
        /\ made[m1].op = "evaluate" /\ made[m2].op = "evaluate"
        /\ made[m1].args = made[m2].args
        /\ Kind(made[m1].args[1]) = "hcat"
        /\ \A k \in DOMAIN heap[made[m1].args[1]].itrs :
               Kind(heap[made[m1].args[1]].itrs[k]) = "listiter"
        /\ Len(heap[m1].data) = 2
        /\ heap[m2].data = <<>>

-----------------------------------------------------------------------------
(* Natural join: a probe relation (object 1) and a build relation          *)
(* (object 2) in memory, the join of the two, pulled tuple by tuple or     *)
(* evaluated.                                                              *)

BA == <<Attribute("b", "int"), Attribute("a", "int")>>
CB == <<Attribute("c", "int"), Attribute("b", "int")>>

BuildSchemas == {CB, C_, BA}

\* Probe rows: both columns 0 or both 1
ProbeTables(n) == {d \in Tables(AB, n) : \A k \in DOMAIN d : d[k][1] = d[k][2]}

InitJoin ==
    /\ \E ldata \in ProbeTables(MaxRows), rattrs \in BuildSchemas :
           \E rdata \in Tables(rattrs, MaxRows) :
               Start(InMemoryRelation_init(InMemoryRelation_init(<<>>, AB, ldata).h,
                                           rattrs, rdata).h)
    /\ generator_stop \in BOOLEAN

NoneOfKind(kind) == \A o \in Objects : Kind(o) # kind

NextJoin ==
    \/ NoneOfKind("join") /\ NaturalJoin(1, 2)
    \/ \E o \in Objects :
           Kind(o) = "join" /\ NoneOfKind("joingen") /\ Iterate(o)
    \/ \E o \in Objects :
           Kind(o) = "join" /\ NoneOfKind("joingen") /\ Evaluate(o)
    \/ \E o \in Objects : Kind(o) = "joingen" /\ made[o].op = "iter" /\ Pull(o)

SpecJoin == InitJoin /\ [][NextJoin]_vars

\* The position of the column called n in a schema of distinct names
ColumnOf(attributes, n) == CHOOSE i \in DOMAIN attributes : attributes[i].name = n

SharedNames(lattrs, rattrs) == NameSet(lattrs) \cap NameSet(rattrs)

\* The build tuple r agrees with the probe tuple l on every shared column
Agree(l, lattrs, r, rattrs) ==
    \A n \in SharedNames(lattrs, rattrs) :
        l[ColumnOf(lattrs, n)] = r[ColumnOf(rattrs, n)]

Values(fields) == [i \in DOMAIN fields |-> fields[i][2]]

\* l followed by the fields of r under columns that l does not have
Joined(l, lattrs, r, rattrs) ==
    l \o Values(SelectSeq([i \in DOMAIN r |-> <<rattrs[i].name, r[i]>>],
                          LAMBDA f : f[1] \notin NameSet(lattrs)))

RECURSIVE JoinOf(_, _, _, _)
JoinOf(ldata, lattrs, rdata, rattrs) ==
    IF ldata = <<>> THEN <<>>
    ELSE LET l == Head(ldata)
             ms == SelectSeq(rdata, LAMBDA r : Agree(l, lattrs, r, rattrs))
         IN  [i \in DOMAIN ms |-> Joined(l, lattrs, ms[i], rattrs)]
             \o JoinOf(Tail(ldata), lattrs, rdata, rattrs)

\* The number of build tuples sharing the key of the probe tuple l
Sharing(l, lattrs, rdata, rattrs) ==
    Cardinality({k \in DOMAIN rdata : Agree(l, lattrs, rdata[k], rattrs)})

RECURSIVE Total(_, _, _, _)
Total(ldata, lattrs, rdata, rattrs) ==
    IF ldata = <<>> THEN 0
    ELSE Sharing(Head(ldata), lattrs, rdata, rattrs)
         + Total(Tail(ldata), lattrs, rdata, rattrs)

ExpectedJoin == JoinOf(heap[1].data, heap[1].attrs, heap[2].data, heap[2].attrs)

\* C3: the tuples a join yields are, probe tuple by probe tuple, the probe
\* tuple followed by the non-shared fields of each build tuple that agrees
\* with it on the shared columns, build tuples in their own order; when the
\* probe side is exhausted their number is the sum over the probe tuples of
\* the build tuples sharing the key.
C3_NaturalJoin ==
    \A g \in Objects :
        (Kind(g) = "joingen" /\ made[g].op = "iter") =>
            /\ IsPrefix(got[g], ExpectedJoin)
            /\ last[g] \in Finished =>
                   /\ got[g] = ExpectedJoin
                   /\ Len(got[g]) = Total(heap[1].data, heap[1].attrs,
                                          heap[2].data, heap[2].attrs)

\* A drained join in which one probe tuple met two different build tuples
\* and the other met none.
C3_Witness ==
    \E g \in Objects :
        /\ Kind(g) = "joingen" /\ made[g].op = "iter"
        /\ last[g] \in Finished
        /\ Len(heap[1].data) = 2
        /\ Len(got[g]) = 2
        /\ got[g][1] # got[g][2]
        /\ SubSeq(got[g][1], 1, 2) = SubSeq(got[g][2], 1, 2)
        /\ heap[2].attrs = CB

\* C23: draining a natural join ends normally: a join generator pulled to
\* its end signals the end of the sequence, and evaluate() of a join
\* raises no error and returns the materialized result.
C23_JoinTerminates ==
    /\ \A g \in Objects :
           (Kind(g) = "joingen" /\ made[g].op = "iter" /\ last[g] \in Finished) =>
               last[g] = "stop"
    /\ (call.op = "evaluate" /\ Kind(call.args[1]) = "join") =>
           (call.err = "ok" /\ Kind(call.id) = "mem" /\ heap[call.id].data = ExpectedJoin)

-----------------------------------------------------------------------------
(* Selection and projection over one in-memory relation (object 1), each   *)
(* operator evaluated once.                                                *)

AlgKeeps == {<<>>, <<"a">>, <<"b", "a">>}

InitAlg ==
    /\ \E data \in Tables(AB, MaxRows) : Start(InMemoryRelation_init(<<>>, AB, data).h)
    /\ generator_stop = TRUE

\* No operator was built by this call with these parameters yet
NotYet(op, par) == \A o \in Objects : ~(made[o].op = op /\ made[o].par = par)

NextAlg ==
    \/ \E p \in Predicates :
           NotYet("select", p) /\ Room(2, AlgObjs) /\ Select(1, p)
    \/ \E keep \in AlgKeeps :
           NotYet("project", keep) /\ Room(2, AlgObjs) /\ Project(1, keep)
    \/ \E o \in Objects :
           /\ Kind(o) \in {"sel", "proj"}
           /\ Drains(o) < 1
           /\ Room(1, AlgObjs)
           /\ Evaluate(o)

SpecAlg == InitAlg /\ [][NextAlg]_vars

\* The tuple t of a relation with these columns satisfies the predicate p
Holds(p, attributes, t) == (t[ColumnOf(attributes, p.name)] = p.v) # p.neg

\* The relations evaluate() made from operators of one kind over object 1
EvaluatedOf(kind) ==
    {m \in Objects : /\ made[m].op = "evaluate"
                     /\ Kind(made[m].args[1]) = kind
                     /\ made[made[m].args[1]].args = <<1>>}

Param(m) == made[made[m].args[1]].par

\* C4: draining select(R, p) yields the tuples of R that satisfy p, in R's
\* order, under R's schema; the counts for p and for not p add up to R's.
C4_Selection ==
    /\ \A m \in EvaluatedOf("sel") :
           /\ heap[m].data =
                  SelectSeq(heap[1].data, LAMBDA t : Holds(Param(m), heap[1].attrs, t))
           /\ heap[m].attrs = heap[1].attrs
    /\ \A m1, m2 \in EvaluatedOf("sel") :
           (Param(m1) = [Param(m2) EXCEPT !.neg = ~@]) =>
               Len(heap[m1].data) + Len(heap[m2].data) = Len(heap[1].data)

\* select(R, p) and select(R, not p) both drained, over an R of two tuples
\* of which one satisfies p.
C4_Witness ==
    \E m1, m2 \in EvaluatedOf("sel") :
        /\ Param(m1) = [Param(m2) EXCEPT !.neg = ~@]
        /\ Len(heap[m1].data) = 1
        /\ Len(heap[m2].data) = 1
        /\ heap[1].data[2] = heap[m1].data[1]

\* C5: a projection's schema is the requested columns' descriptors in the
\* requested order, and draining it yields one tuple per input tuple, in
\* order, holding the input tuple's values of the requested columns; for an
\* empty list the schema is empty and each tuple is empty.
C5_Projection ==
    /\ \A o \in Objects :
           (Kind(o) = "proj" /\ made[o].args = <<1>>) =>
               heap[o].attrs =
                   [i \in DOMAIN made[o].par |->
                       heap[1].attrs[ColumnOf(heap[1].attrs, made[o].par[i])]]
    /\ \A m \in EvaluatedOf("proj") :
           /\ heap[m].attrs = heap[made[m].args[1]].attrs
           /\ Len(heap[m].data) = Len(heap[1].data)
           /\ \A k \in DOMAIN heap[1].data :
                  heap[m].data[k] =
                      [i \in DOMAIN Param(m) |->
                          heap[1].data[k][ColumnOf(heap[1].attrs, Param(m)[i])]]
    /\ \A m \in EvaluatedOf("proj") :
           Param(m) = <<>> =>
               /\ heap[m].attrs = <<>>
               /\ heap[m].data = [k \in DOMAIN heap[1].data |-> <<>>]

\* project(R, "b", "a") drained over tuples whose a and b differ, and
\* project(R) drained over the same two tuples.
C5_Witness ==
    \E m1, m2 \in EvaluatedOf("proj") :
        /\ Param(m1) = <<"b", "a">>
        /\ Param(m2) = <<>>
        /\ Len(heap[m1].data) = 2
        /\ heap[m2].data = <<<<>>, <<>>>>
        /\ heap[m1].data[1][1] # heap[m1].data[1][2]

-----------------------------------------------------------------------------
(* Construction: an in-memory relation (a:int, b:int) and two file         *)
(* streams (b:str, c:int) and (c:int); every constructor is called on      *)
(* every choice of them, well-shaped or not, and what was built is pulled. *)

BC == <<Attribute("b", "str"), Attribute("c", "int")>>

\* k lines of the same text
Same(line, n) == {[i \in 1..k |-> line] : k \in 0..n}

InitCtor ==
    /\ \E data \in Narrow(AB, MaxRows) :
           \E blines \in Same(<<Text("word", 0), Text("int", 1)>>, MaxRows) :
               \E clines \in Same(<<Text("int", 1)>>, MaxRows) :
                   LET a == InMemoryRelation_init(<<>>, AB, data)
                       b == FileStreamRelation_init(a.h, BC, blines)
                       c == FileStreamRelation_init(b.h, C_, clines)
                   IN  Start(c.h)
    /\ generator_stop = TRUE

Unbuilt == NoOperator /\ NoneOfKind("join")

NextCtor ==
    \/ \E o \in Bases, keep \in {<<"a">>, <<"c", "b">>} : Unbuilt /\ Project(o, keep)
    \/ \E o \in Bases, to \in {"b", "e"} : Unbuilt /\ RenameTo(o, "a" :> to)
    \/ \E o1, o2 \in Bases : Unbuilt /\ HCatOf(<<o1, o2>>)
    \/ \E o1, o2 \in Bases : Unbuilt /\ VCatOf(<<o1, o2>>)
    \/ \E o1, o2 \in Bases : Unbuilt /\ AssignTo(o1, o2)
    \/ \E o1, o2 \in Bases : Unbuilt /\ NaturalJoin(o1, o2)
    \/ \E o \in Objects : Kind(o) \in LazyKinds /\ Pull(o)

SpecCtor == InitCtor /\ [][NextCtor]_vars

\* The schema of the i-th relation the latest call was given
Arg(c, i) == heap[c.args[i]].attrs

\* Columns of the two schemas with the same name and different types
Clash(s1, s2) ==
    \E i \in DOMAIN s1, j \in DOMAIN s2 : s1[i].name = s2[j].name /\ s1[i].type # s2[j].type

\* The call c, made in the current state, is given schemas of a wrong shape
BadShape(c) ==
    CASE c.op = "project" ->
            \E i \in DOMAIN c.par : c.par[i] \notin NameSet(Arg(c, 1))
      [] c.op = "hcat" ->
            \E k1, k2 \in DOMAIN c.args :
                \E i \in DOMAIN Arg(c, k1), j \in DOMAIN Arg(c, k2) :
                    /\ <<k1, i>> # <<k2, j>>
                    /\ Arg(c, k1)[i].name = Arg(c, k2)[j].name
      [] c.op = "vcat" ->
            \E k \in DOMAIN c.args : AttributeSet(Arg(c, k)) # AttributeSet(Arg(c, 1))
      [] c.op = "assign" ->
            \/ ~(NameSet(Arg(c, 2)) \subseteq NameSet(Arg(c, 1)))
            \/ Clash(Arg(c, 1), Arg(c, 2))
      [] c.op = "natural_join" -> Clash(Arg(c, 1), Arg(c, 2))
      [] OTHER -> FALSE

\* C6: a Projection, HCat, VCat, Assign or natural join given schemas of a
\* wrong shape fails in its constructor and leaves every object as it was:
\* no iterator taken, no tuple drawn from any input.
C6_FailFast ==
    [][BadShape(call') => (call'.err # "ok" /\ heap' = heap)]_vars

\* A natural join whose shared column b is int on one side and str on the
\* other has failed, and the file stream on the build side still stands
\* before its first line.
C6_Witness ==
    /\ call.op = "natural_join"
    /\ call.err = "TypeError"
    /\ call.args = <<1, 2>>
    /\ heap[2].pos = 0
    /\ Len(heap[2].data) = 2
    /\ Len(heap) = 3

\* The names a schema has after the substitution
Renamed(attributes, substitutions) ==
    [i \in DOMAIN attributes |->
        IF attributes[i].name \in DOMAIN substitutions
        THEN substitutions[attributes[i].name]
        ELSE attributes[i].name]

Distinct(s) == \A i, j \in DOMAIN s : s[i] = s[j] => i = j

\* C7: a rename whose substitution gives two columns the same name fails.
C7_RenameDuplicate ==
    (call.op = "rename" /\ ~Distinct(Renamed(Arg(call, 1), call.par))) => call.err # "ok"

-----------------------------------------------------------------------------
(* Lock-step operators: HCat and Assign over the in-memory relation        *)
(* (a, b) (object 1) and a second in-memory relation (object 2) whose      *)
(* number of tuples may differ, and Assign of a projection of object 1     *)
(* back onto it.                                                           *)

B_ == <<Attribute("b", "int")>>

\* The k-th tuple holds 10k + i in its i-th field
Numbered(attributes, n) ==
    {[k \in 1..m |-> [i \in DOMAIN attributes |-> Int_(10 * k + i)]] : m \in 0..n}

InitZip ==
    /\ \E data \in Narrow(AB, MaxRows), attributes \in {BA, B_, C_} :
           \E other \in Numbered(attributes, MaxRows) :
               Start(InMemoryRelation_init(InMemoryRelation_init(<<>>, AB, data).h,
                                           attributes, other).h)
    /\ generator_stop = TRUE

NoZip == NoneOfKind("hcat") /\ NoneOfKind("assign")

NextZip ==
    \/ NoZip /\ NoneOfKind("proj") /\ HCatOf(<<1, 2>>)
    \/ NoZip /\ NoneOfKind("proj") /\ AssignTo(1, 2)
    \/ \E keep \in {<<>>, <<"b">>, <<"b", "a">>} :
           NoZip /\ NoneOfKind("proj") /\ Project(1, keep)
    \/ \E p \in Objects : Kind(p) = "proj" /\ NoZip /\ AssignTo(1, p)
    \/ \E o \in Objects : Kind(o) \in {"hcat", "assign"} /\ Pull(o)

SpecZip == InitZip /\ [][NextZip]_vars

Min(x, y) == IF x <= y THEN x ELSE y

\* C8: an HCat or Assign of two relations never yields more tuples than the
\* shorter one holds; a drain of it ends normally only if the two hold the
\* same number, and otherwise ends in the row-count error after exactly as
\* many tuples as the shorter one holds.
C8_RowCountMismatch ==
    \A o \in Objects :
        (Kind(o) \in {"hcat", "assign"} /\ made[o].args = <<1, 2>>) =>
            LET n1 == Len(heap[1].data)
                n2 == Len(heap[2].data)
            IN  /\ Len(got[o]) <= Min(n1, n2)
                /\ last[o] = "stop" => (n1 = n2 /\ Len(got[o]) = n1)
                /\ (last[o] \in Finished /\ n1 # n2) =>
                       (last[o] = "RuntimeError" /\ Len(got[o]) = Min(n1, n2))

\* An HCat of relations of two tuples and one tuple has failed with the
\* row-count error after one tuple.
C8_Witness ==
    \E o \in Objects :
        /\ Kind(o) = "hcat" /\ made[o].args = <<1, 2>>
        /\ Len(heap[1].data) = 2 /\ Len(heap[2].data) = 1
        /\ last[o] = "RuntimeError"
        /\ Len(got[o]) = 1

\* C9: the i-th tuple of assign(base, changes) is the i-th base tuple with
\* each column the changes have replaced by the i-th changes tuple's value
\* of the column of that name; the schema is the base's.
C9_Assign ==
    \A o \in Objects :
        (Kind(o) = "assign" /\ made[o].args = <<1, 2>>) =>
            /\ heap[o].attrs = heap[1].attrs
            /\ \A i \in DOMAIN got[o] :
                   got[o][i] =
                       [col \in DOMAIN heap[1].attrs |->
                           IF heap[1].attrs[col].name \in NameSet(heap[2].attrs)
                           THEN heap[2].data[i][ColumnOf(heap[2].attrs, heap[1].attrs[col].name)]
                           ELSE heap[1].data[i][col]]

\* Two tuples drawn from an Assign whose changes list the columns as (b, a)
C9_Witness ==
    \E o \in Objects :
        /\ Kind(o) = "assign" /\ made[o].args = <<1, 2>>
        /\ heap[2].attrs = BA
        /\ Len(got[o]) = 2

\* The Assigns of a projection of object 1 onto object 1
AssignedBack ==
    {o \in Objects : /\ Kind(o) = "assign"
                     /\ made[o].args[1] = 1
                     /\ Kind(made[o].args[2]) = "proj"
                     /\ made[made[o].args[2]].args = <<1>>}

\* C10: assign(R, project(R, names)) has R's schema and yields R's tuples,
\* in order, and ends normally after the last one.
C10_ProjectAssign ==
    \A o \in AssignedBack :
        /\ heap[o].attrs = heap[1].attrs
        /\ IsPrefix(got[o], heap[1].data)
        /\ last[o] \in Finished => (last[o] = "stop" /\ got[o] = heap[1].data)

\* project(R, "b", "a") assigned back onto an R of two tuples, the first
\* with different values of a and b, and drained.
C10_Witness ==
    \E o \in AssignedBack :
        /\ made[made[o].args[2]].par = <<"b", "a">>
        /\ last[o] = "stop"
        /\ Len(got[o]) = 2
        /\ got[o][1][1] # got[o][1][2]

-----------------------------------------------------------------------------
(* Vertical concatenation: an in-memory relation (a, b) (object 1), a      *)
(* typed file listing its columns as (a, b) or (b, a) (object 2) and       *)
(* another in-memory relation (a, b) (object 3).                           *)

InitVCat ==
    /\ \E first \in Numbered(AB, MaxRows), attributes \in {AB, BA},
          second \in Narrow(AB, MaxRows), third \in Same(<<Int_(0), Int_(1)>>, MaxRows) :
           Start(InMemoryRelation_init(
                     FileStreamRelation_init(
                         InMemoryRelation_init(<<>>, AB, first).h,
                         attributes, AsLines(second)).h,
                     AB, third).h)
    /\ generator_stop = TRUE

NextVCat ==
    \/ \E relations \in {<<1, 2>>, <<2, 1>>, <<1, 2, 3>>, <<3, 2, 1>>} :
           NoneOfKind("vcat") /\ VCatOf(relations)
    \/ \E o \in Objects : Kind(o) = "vcat" /\ Pull(o)

SpecVCat == InitVCat /\ [][NextVCat]_vars

\* The tuples a stored relation holds, as its iterator yields them
Contents(o) ==
    IF Kind(o) = "file" THEN Typed(heap[o].attrs, heap[o].data) ELSE heap[o].data

\* The tuples of the given relations end to end, each with the schema of
\* the relation it belongs to
RECURSIVE Laid(_)
Laid(relations) ==
    IF relations = <<>> THEN <<>>
    ELSE [k \in DOMAIN Contents(Head(relations)) |->
             [t |-> Contents(Head(relations))[k], attrs |-> heap[Head(relations)].attrs]]
         \o Laid(Tail(relations))

\* How many tuples have been drawn from a stored relation
Consumed(o) ==
    IF Kind(o) = "file" THEN heap[o].pos
    ELSE LET its == {i \in Objects : Kind(i) = "listiter" /\ heap[i].rels = <<o>>}
         IN  IF its = {} THEN 0
             ELSE CHOOSE p \in {heap[i].pos : i \in its} : \A i \in its : heap[i].pos <= p

\* C11: the tuples drawn from a VCat are the tuples of its inputs laid end
\* to end in argument order; a drain ends normally after all of them, and
\* nothing has been drawn from an input while an earlier input still holds
\* tuples.
C11_VCatOrder ==
    \A o \in Objects :
        Kind(o) = "vcat" =>
            LET relations == made[o].args
                all == Laid(relations)
            IN  /\ IsPrefix(got[o], [i \in DOMAIN all |-> all[i].t])
                /\ last[o] \in Finished => (last[o] = "stop" /\ Len(got[o]) = Len(all))
                /\ \A k \in DOMAIN relations :
                       Consumed(relations[k]) > 0 =>
                           \A j \in 1..(k - 1) :
                               Consumed(relations[j]) = Len(heap[relations[j]].data)

\* A VCat of three inputs of two, one and two tuples, drained
C11_Witness ==
    \E o \in Objects :
        /\ Kind(o) = "vcat" /\ made[o].args = <<1, 2, 3>>
        /\ Len(heap[1].data) = 2 /\ Len(heap[2].data) = 1 /\ Len(heap[3].data) = 2
        /\ last[o] = "stop"
        /\ Len(got[o]) = 5

\* C12: each field of a tuple drawn from a VCat holds the value the tuple
\* had, in the input it came from, under the column the output schema has
\* at that position.
C12_VCatConforms ==
    \A o \in Objects :
        Kind(o) = "vcat" =>
            LET all == Laid(made[o].args)
            IN  \A i \in DOMAIN got[o] :
                    \A c \in DOMAIN heap[o].attrs :
                        got[o][i][c] =
                            all[i].t[ColumnOf(all[i].attrs, heap[o].attrs[c].name)]

-----------------------------------------------------------------------------
(* Type alteration of an in-memory relation (a:str, b:float) (object 1).   *)

SF == <<Attribute("a", "str"), Attribute("b", "float")>>

TypeDicts ==
    {"a" :> "int", "b" :> "int", "c" :> "int",
     "a" :> "float" @@ "b" :> "str", "a" :> "int" @@ "b" :> "int"}

InitAlter ==
    /\ \E data \in Tables(SF, MaxRows) : Start(InMemoryRelation_init(<<>>, SF, data).h)
    /\ generator_stop = TRUE

NextAlter ==
    \/ \E td \in TypeDicts : NoneOfKind("alter") /\ AlterTypeOf(1, td)
    \/ \E o \in Objects : Kind(o) = "alter" /\ Pull(o)

SpecAlter == InitAlter /\ [][NextAlter]_vars

\* The tuple t of schema `attributes` with the columns td names converted
Altered(t, attributes, td) ==
    [c \in DOMAIN t |->
        IF attributes[c].name \in DOMAIN td
        THEN Convert(td[attributes[c].name], t[c]) ELSE t[c]]

\* t has a field that the type td gives its column does not accept
Unconvertible(t, attributes, td) ==
    \E c \in DOMAIN t :
        attributes[c].name \in DOMAIN td /\ ~CanConvert(td[attributes[c].name], t[c])

\* C13: alter_type never fails when it is called; the tuples drawn are the
\* input's tuples, in order, with the named columns converted and the
\* others as they were; the tuples before the first unconvertible one are
\* all drawn, the pull that reaches it fails, and a drain ends normally
\* only if there is none.
C13_AlterType ==
    /\ call.op = "alter_type" => call.err = "ok"
    /\ \A o \in Objects :
           Kind(o) = "alter" =>
               LET data == heap[1].data
                   td == made[o].par
                   bad == {i \in DOMAIN data : Unconvertible(data[i], SF, td)}
               IN  /\ got[o] = [i \in DOMAIN got[o] |-> Altered(data[i], SF, td)]
                   /\ \A i \in bad : Len(got[o]) < i
                   /\ last[o] \in Finished =>
                          IF bad = {}
                          THEN last[o] = "stop" /\ Len(got[o]) = Len(data)
                          ELSE last[o] = "ValueError" /\ Len(got[o]) + 1 \in bad

\* a is altered to int; the first tuple's a is the text of an int and was
\* drawn converted, the second's is a word and the pull reaching it failed
C13_Witness ==
    \E o \in Objects :
        /\ Kind(o) = "alter" /\ made[o].par = "a" :> "int"
        /\ Len(heap[1].data) = 2
        /\ heap[1].data[2][1] = Text("word", 0)
        /\ Len(got[o]) = 1 /\ got[o][1][1] = Int_(1)
        /\ last[o] = "ValueError"

-----------------------------------------------------------------------------
(* Update of an in-memory relation (a, b) (object 1).                      *)

UpdateFds ==
    {UpdateFd,
     <<<<"b", [name |-> "a", add |-> 1]>>, <<"a", [name |-> "b", add |-> 1]>>>>,
     <<<<"a", [name |-> "a", add |-> 1]>>>>,
     <<<<"c", [name |-> "a", add |-> 1]>>>>}

InitUpdate ==
    /\ \E data \in Tables(AB, MaxRows) : Start(InMemoryRelation_init(<<>>, AB, data).h)
    /\ generator_stop = TRUE

NextUpdate ==
    \/ \E fd \in UpdateFds : NoneOfKind("update") /\ call.err = "ok" /\ UpdateOf(1, fd)
    \/ \E o \in Objects : Kind(o) = "update" /\ Pull(o)

SpecUpdate == InitUpdate /\ [][NextUpdate]_vars

\* The tuple t of schema `attributes` with each column fd names replaced by
\* the value of its function at t
Updated(t, attributes, fd) ==
    [c \in DOMAIN t |->
        IF \E i \in DOMAIN fd : fd[i][1] = attributes[c].name
        THEN LET f == fd[CHOOSE i \in DOMAIN fd : fd[i][1] = attributes[c].name][2]
             IN  Int_(t[ColumnOf(attributes, f.name)].v + f.add)
        ELSE t[c]]

\* C14: an Update has its input's schema; the i-th tuple drawn from it is
\* the i-th input tuple with each named column holding its function's value
\* at the input tuple, and a drain yields one tuple per input tuple.
C14_Update ==
    \A o \in Objects :
        Kind(o) = "update" =>
            LET data == heap[1].data
            IN  /\ heap[o].attrs = heap[1].attrs
                /\ Len(got[o]) <= Len(data)
                /\ got[o] = [i \in DOMAIN got[o] |-> Updated(data[i], AB, made[o].par)]
                /\ last[o] \in Finished => (last[o] = "stop" /\ Len(got[o]) = Len(data))

\* a := b + 1 and b := a + 1 over the tuples (0, 0) and (1, 0), drained:
\* b's function saw the a of the input, not the a just written
C14_Witness ==
    \E o \in Objects :
        /\ Kind(o) = "update" /\ made[o].par = UpdateFd
        /\ heap[1].data = <<<<Int_(0), Int_(0)>>, <<Int_(1), Int_(0)>>>>
        /\ got[o] = <<<<Int_(1), Int_(1)>>, <<Int_(1), Int_(2)>>>>
        /\ last[o] = "stop"

-----------------------------------------------------------------------------
(* Folds over an in-memory relation (a, b) (object 1) and over a typed     *)
(* file (a, b) (object 2), each Fold iterated once.                        *)

FoldFds ==
    {<<<<Attribute("x", "int"), <<[name |-> "a", mul |-> 2], Int_(0)>>>>,
       <<Attribute("y", "int"), <<[name |-> "b", mul |-> 1], Int_(1)>>>>>>,
     <<<<Attribute("x", "int"), <<[name |-> "a", mul |-> 2], Int_(1)>>>>>>}

InitFold ==
    /\ \E data \in Tables(AB, MaxRows), lines \in Narrow(AB, MaxRows) :
           Start(FileStreamRelation_init(InMemoryRelation_init(<<>>, AB, data).h,
                                         AB, AsLines(lines)).h)
    /\ generator_stop = TRUE

NextFold ==
    \/ \E o \in {1, 2}, fd \in FoldFds : NoneOfKind("fold") /\ FoldOf(o, fd)
    \/ \E o \in Objects : Kind(o) = "fold" /\ NoneOfKind("foldgen") /\ Iterate(o)
    \/ \E o \in Objects : Kind(o) = "foldgen" /\ Pull(o)

SpecFold == InitFold /\ [][NextFold]_vars

\* f(... f(f(acc, t1), t2) ..., tn) for the combining function f and the
\* tuples ts = t1 .. tn of schema `attributes`
RECURSIVE FoldLeft(_, _, _, _)
FoldLeft(f, acc, attributes, ts) ==
    IF ts = <<>> THEN acc
    ELSE FoldLeft(f, Int_(f.mul * acc.v + Head(ts)[ColumnOf(attributes, f.name)].v),
                  attributes, Tail(ts))

\* The list iterators taken over an in-memory relation
IteratorsOver(o) == {i \in Objects : Kind(i) = "listiter" /\ heap[i].rels = <<o>>}

\* C15: the iteration of a Fold yields one tuple and then ends; the i-th
\* field is the left fold of the i-th function over the input's tuples in
\* order from the i-th initial value; when the tuple is drawn the input has
\* been read to its end, in a single pass.
C15_Fold ==
    \A g \in Objects :
        Kind(g) = "foldgen" =>
            LET f == heap[g].rels[1]
                r == made[f].args[1]
                fd == made[f].par
            IN  /\ heap[f].attrs = [i \in DOMAIN fd |-> fd[i][1]]
                /\ Len(got[g]) <= 1
                /\ got[g] # <<>> =>
                       /\ got[g][1] = [i \in DOMAIN fd |->
                                          FoldLeft(fd[i][2][1], fd[i][2][2],
                                                   heap[r].attrs, Contents(r))]
                       /\ Consumed(r) = Len(heap[r].data)
                /\ Cardinality(IteratorsOver(r)) <= 1
                /\ last[g] \in Finished => (last[g] = "stop" /\ Len(got[g]) = 1)

\* Two folds over the tuples (0, 1), (1, 0), drained: x = 2 * (2 * 0 + 0) + 1
\* and y = 1 + 1 + 0
C15_Witness ==
    \E g \in Objects :
        /\ Kind(g) = "foldgen"
        /\ Len(made[heap[g].rels[1]].par) = 2
        /\ made[heap[g].rels[1]].args = <<1>>
        /\ heap[1].data = <<<<Int_(0), Int_(1)>>, <<Int_(1), Int_(0)>>>>
        /\ got[g] = <<<<Int_(1), Int_(2)>>>>
        /\ last[g] = "stop"

-----------------------------------------------------------------------------
(* Aggregation of an in-memory relation (a:int, b:float, s:str)            *)
(* (object 1).                                                             *)

ABS == <<Attribute("a", "int"), Attribute("b", "float"), Attribute("s", "str")>>

AllOf(n) == [i \in 1..6 |-> <<n, <<"Count", "Max", "Mean", "Min", "Sum", "Variance">>[i]>>]

Aggregators == {<<<<"a", "Count">>, <<"s", "Count">>, <<"b", "Count">>>>, AllOf("a"), AllOf("b")}

Generators == {o \in Objects : Kind(o) = "agggen"}

InitAgg ==
    /\ \E data \in Tables(ABS, MaxRows) : Start(InMemoryRelation_init(<<>>, ABS, data).h)
    /\ generator_stop = TRUE

NextAgg ==
    \/ \E fs \in Aggregators : NoneOfKind("agg") /\ AggregateOf(1, fs)
    \/ \E o \in Objects :
           Kind(o) = "agg" /\ Cardinality(Generators) < MaxDrains /\ Iterate(o)
    \/ \E o \in Generators : Pull(o)

SpecAgg == InitAgg /\ [][NextAgg]_vars

\* C16: an iteration of an Aggregate yields one tuple and then ends; when
\* the tuple is drawn the input has been read to its end by one iterator,
\* and every Count column of the tuple is the number of the input's tuples.
C16_Count ==
    \A g \in Generators :
        LET a == heap[g].rels[1]
            r == made[a].args[1]
            fs == made[a].par
        IN  /\ Len(got[g]) <= 1
            /\ got[g] # <<>> =>
                   /\ Consumed(r) = Len(heap[r].data)
                   /\ \A k \in DOMAIN fs :
                          fs[k][2] = "Count" => got[g][1][k] = Int_(Len(heap[r].data))
            /\ Cardinality(IteratorsOver(r)) <= 1
            /\ last[g] \in Finished => (last[g] = "stop" /\ Len(got[g]) = 1)

\* Counts of the int, the str and the float column over two tuples whose
\* int field is 0: all are 2
C16_Witness ==
    \E g \in Generators :
        /\ made[heap[g].rels[1]].par[2] = <<"s", "Count">>
        /\ Len(heap[1].data) = 2
        /\ heap[1].data[1][1] = Int_(0)
        /\ got[g] = <<<<Int_(2), Int_(2), Int_(2)>>>>
        /\ last[g] = "stop"

\* The type the column of aggregator f over a column of type `type` has
TypeRule(f, type) ==
    CASE f = "Count" -> "int"
      [] f = "Variance" -> "float"
      [] OTHER -> type

\* C17: the schema of an Aggregate has one column per (source column,
\* aggregator) pair, in order, named <source>_<aggregator>; its type is int
\* for Count, float for Variance and the source column's type otherwise.
C17_AggregateSchema ==
    \A o \in Objects :
        Kind(o) = "agg" =>
            LET fs == made[o].par
                r == made[o].args[1]
            IN  heap[o].attrs =
                    [k \in DOMAIN fs |->
                        Attribute(fs[k][1] \o "_" \o fs[k][2],
                                  TypeRule(fs[k][2],
                                           heap[r].attrs[ColumnOf(heap[r].attrs, fs[k][1])].type))]

-----------------------------------------------------------------------------
(* The Variance aggregator, fed the values of the column x of an in-memory *)
(* relation (object 1) through an Aggregate.                               *)

X_ == <<Attribute("x", "int")>>

Fed == {Int_(10), Int_(20), Int_(30)}

InitVariance ==
    /\ \E n \in 0..MaxFed : \E xs \in [1..n -> Fed] :
           Start(InMemoryRelation_init(<<>>, X_, [i \in 1..n |-> <<xs[i]>>]).h)
    /\ generator_stop = TRUE

NextVariance ==
    \/ \E fs \in {<<<<"x", "Variance">>>>, <<<<"x", "Mean">>, <<"x", "Variance">>>>} :
           NoneOfKind("agg") /\ AggregateOf(1, fs)
    \/ \E o \in Objects : Kind(o) = "agg" /\ Generators = {} /\ Iterate(o)
    \/ \E o \in Generators : Pull(o)

SpecVariance == InitVariance /\ [][NextVariance]_vars

RECURSIVE SumOf(_)
SumOf(ts) == IF ts = <<>> THEN 0 ELSE Head(ts)[1].v + SumOf(Tail(ts))

RECURSIVE SumOfSquares(_)
SumOfSquares(ts) ==
    IF ts = <<>> THEN 0 ELSE Head(ts)[1].v * Head(ts)[1].v + SumOfSquares(Tail(ts))

\* sum((xi - mean)^2) / (n - 1) = (n * sum(xi^2) - sum(xi)^2) / (n * (n - 1))
SampleVariance(ts) ==
    LET n == Len(ts)
    IN  QNorm(n * SumOfSquares(ts) - SumOf(ts) * SumOf(ts), n * (n - 1))

\* C18: the value a Variance aggregator yields after the values x1 .. xn is
\* NaN for n = 0, 0 for n = 1 and the sample variance for n >= 2, and its
\* running mean is then the mean of the values.
C18_Variance ==
    \A g \in Generators :
        got[g] # <<>> =>
            LET a == heap[g].rels[1]
                ts == heap[1].data
                n == Len(ts)
            IN  \A k \in DOMAIN heap[a].fs :
                    heap[a].fs[k] = "Variance" =>
                        /\ got[g][1][k] = IF n = 0 THEN NaN
                                          ELSE IF n = 1 THEN Float_(0)
                                               ELSE Real(SampleVariance(ts))
                        /\ n >= 1 => heap[a].v[k].m = QNorm(SumOf(ts), n)

\* The values 10, 20, 30: the mean is 20 and the variance 100.0
C18_Witness ==
    \E g \in Generators :
        /\ heap[1].data = <<<<Int_(10)>>, <<Int_(20)>>, <<Int_(30)>>>>
        /\ made[heap[g].rels[1]].par = <<<<"x", "Variance">>>>
        /\ got[g] = <<<<Float_(200)>>>>
        /\ heap[heap[g].rels[1]].v[1].m = <<20, 1>>

-----------------------------------------------------------------------------
(* In-place sorts of an in-memory relation (a, b) (object 1).              *)

None == [none |-> TRUE, names |-> <<>>]
Names(key) == [none |-> FALSE, names |-> key]

SortKeys == {None, Names(<<"a">>), Names(<<"b">>), Names(<<"b", "a">>), Names(<<"c">>)}

InitSort ==
    /\ \E data \in Tables(AB, MaxRows) : Start(InMemoryRelation_init(<<>>, AB, data).h)
    /\ generator_stop = TRUE

NextSort == \E key \in SortKeys, reverse \in BOOLEAN : Sort(1, key, reverse)

SpecSort == InitSort /\ [][NextSort]_vars

\* The projected key of the tuple t of schema `attributes`
KeyTuple(t, attributes, key) ==
    IF key.none THEN t
    ELSE [i \in DOMAIN key.names |-> t[ColumnOf(attributes, key.names[i])]]

\* k1 is less than k2, lexicographically
Precedes(k1, k2) ==
    \E p \in DOMAIN k1 : k1[p].v < k2[p].v /\ \A q \in 1..(p - 1) : k1[q] = k2[q]

Bijections(n) == {f \in [1..n -> 1..n] : \A i, j \in 1..n : f[i] = f[j] => i = j}

\* new is old rearranged so that the keys never decrease (never increase
\* when reverse is set) and tuples of equal keys are in the order they had
StablySorted(old, new, attributes, par) ==
    /\ Len(new) = Len(old)
    /\ \E f \in Bijections(Len(old)) :
           /\ \A i \in DOMAIN new : new[i] = old[f[i]]
           /\ \A i, j \in DOMAIN new :
                  i < j =>
                      LET ki == KeyTuple(new[i], attributes, par.key)
                          kj == KeyTuple(new[j], attributes, par.key)
                      IN  /\ IF par.reverse THEN ~Precedes(ki, kj) ELSE ~Precedes(kj, ki)
                          /\ ki = kj => f[i] < f[j]

\* C19: a sort leaves the stored list a permutation of what it was, ordered
\* by the key, ascending or with reverse descending, tuples of equal keys
\* in their previous order in both directions.
C19_Sort ==
    [][(call'.op = "sort" /\ call'.err = "ok") =>
           StablySorted(heap[1].data, heap'[1].data, heap[1].attrs, call'.par)]_vars

\* After a descending sort by a, two tuples of equal a stand with the
\* greater b first: the order they had
C19_Witness ==
    /\ call.op = "sort" /\ call.err = "ok"
    /\ call.par = [key |-> Names(<<"a">>), reverse |-> TRUE]
    /\ heap[1].data = <<<<Int_(0), Int_(1)>>, <<Int_(0), Int_(0)>>>>

-----------------------------------------------------------------------------
(* A with block over stream() or stream_typed(): the file is drawn from,   *)
(* or evaluated (load, load_typed), inside the block, and the block is left *)
(* normally or by the error of its latest call.                            *)

Headers ==
    {<<[name |-> "a", type |-> "int"], [name |-> "b", type |-> "int"]>>,
     <<[name |-> "a", type |-> ""], [name |-> "b", type |-> ""]>>}

FileLines(n) ==
    UNION {[1..k -> {<<Text("int", 0), Text("int", 1)>>, <<Text("word", 0), Text("int", 1)>>}]
               : k \in 0..n}

InitStream == Start(<<>>) /\ generator_stop = TRUE

\* The with blocks that have been entered and not left
Inside == {c \in Objects : Kind(c) = "ctx" /\ ~heap[c].done}

Raised == call.op \in {"next", "evaluate"} /\ call.err \notin {"ok", "tuple", "stop"}

NextStream ==
    \/ \E header \in Headers, lines \in FileLines(MaxRows), typed \in BOOLEAN :
           NoneOfKind("ctx") /\ Stream(header, lines, typed)
    \/ \E c \in Inside : Pull(heap[c].rels[1])
    \/ \E c \in Inside : NoneOfKind("mem") /\ ~Raised /\ Evaluate(heap[c].rels[1])
    \/ \E c \in Inside : ~Raised /\ Exit(c)
    \/ \E c \in Inside : Raised /\ Unwind(c)

SpecStream == InitStream /\ [][NextStream]_vars

\* C20: a file is open only inside the with block that opened it.
C20_HandleReleased ==
    \A f \in Objects :
        (Kind(f) = "file" /\ heap[f].open) => \E c \in Inside : heap[c].rels = <<f>>

-----------------------------------------------------------------------------
(* Schemas: each operator of the library is constructed once over the      *)
(* in-memory relation (a, b) (object 1), and where it takes a second       *)
(* relation over object 2; every input has distinct column names.  What    *)
(* was built is then pulled.                                               *)

ProjectKeeps == {<<"a">>, <<"b", "a">>, <<"a", "a">>}

Substitutions == {"a" :> "c", "a" :> "b", "a" :> "b" @@ "b" :> "a"}

MapFds ==
    {MapFd,
     <<<<Attribute("d", "int"), [name |-> "a", add |-> 1]>>,
       <<Attribute("e", "int"), [name |-> "b", add |-> 0]>>>>}

SchemaAggregators ==
    {<<<<"a", "Count">>, <<"b", "Count">>>>, <<<<"a", "Sum">>, <<"a", "Max">>>>,
     <<<<"a", "Count">>, <<"a", "Count">>>>}

InitSchema ==
    /\ \E data \in Narrow(AB, MaxRows), attributes \in {BA, B_, C_, CB} :
           \E other \in Numbered(attributes, MaxRows) :
               Start(InMemoryRelation_init(InMemoryRelation_init(<<>>, AB, data).h,
                                           attributes, other).h)
    /\ generator_stop = TRUE

NoCall == call.op = "none"

NextSchema ==
    \/ \E keep \in ProjectKeeps : NoCall /\ Project(1, keep)
    \/ \E substitutions \in Substitutions : NoCall /\ RenameTo(1, substitutions)
    \/ NoCall /\ NaturalJoin(1, 2)
    \/ NoCall /\ HCatOf(<<1, 2>>)
    \/ NoCall /\ VCatOf(<<1, 2>>)
    \/ NoCall /\ AssignTo(1, 2)
    \/ \E td \in {"a" :> "str", "a" :> "float" @@ "b" :> "str"} : NoCall /\ AlterTypeOf(1, td)
    \/ \E fd \in MapFds : NoCall /\ MapOver(1, fd)
    \/ \E fd \in UpdateFds : NoCall /\ UpdateOf(1, fd)
    \/ \E fd \in FoldFds : NoCall /\ FoldOf(1, fd)
    \/ \E fs \in SchemaAggregators : NoCall /\ AggregateOf(1, fs)
    \/ \E o \in Objects : Kind(o) \in LazyKinds /\ Pull(o)

SpecSchema == InitSchema /\ [][NextSchema]_vars

OperatorKinds ==
    {"proj", "rename", "join", "hcat", "vcat", "assign", "alter", "map", "update",
     "fold", "agg"}

\* The index of the schema sends each column's name to the column's position
IndexedByPosition(r) ==
    \A i \in DOMAIN r.attrs :
        r.attrs[i].name \in DOMAIN r.index /\ r.index[r.attrs[i].name] = i

\* C21: every relation an operator constructed from inputs of distinct
\* column names has pairwise distinct column names, and its index sends
\* each column's name to that column's position.
C21_SchemaInvariant ==
    \A o \in Objects :
        Kind(o) \in OperatorKinds =>
            Distinct(names(heap[o].attrs)) /\ IndexedByPosition(heap[o])

-----------------------------------------------------------------------------
(* Laziness of the natural join: the probe side (object 1, a file stream   *)
(* or an in-memory relation) and the build side (object 2, a file stream)  *)
(* show by their positions how many tuples were drawn from them.           *)

InitProbe ==
    /\ \E ldata \in ProbeTables(MaxRows), rattrs \in BuildSchemas, infile \in BOOLEAN :
           \E rdata \in Tables(rattrs, MaxRows) :
               LET left == IF infile THEN FileStreamRelation_init(<<>>, AB, AsLines(ldata))
                           ELSE InMemoryRelation_init(<<>>, AB, ldata)
               IN  Start(FileStreamRelation_init(left.h, rattrs, AsLines(rdata)).h)
    /\ generator_stop \in BOOLEAN

NextProbe ==
    \/ NoneOfKind("join") /\ NaturalJoin(1, 2)
    \/ \E o \in Objects :
           Kind(o) = "join" /\ NoneOfKind("joingen") /\ Iterate(o)
    \/ \E o \in Objects : Kind(o) = "joingen" /\ made[o].op = "iter" /\ Pull(o)

SpecProbe == InitProbe /\ [][NextProbe]_vars

\* The tuples a relation holds: a file's lines through its columns' types
TuplesOf(o) ==
    IF Kind(o) = "file" THEN Typed(heap[o].attrs, heap[o].data) ELSE heap[o].data

\* How many tuples the join j has drawn from its probe side
Drawn(j) == heap[heap[j].itrs[1]].pos

\* The probe tuple that produces the k-th tuple of the join: the first one
\* up to which k build tuples or more share the probe tuples' keys
ProbeOf(k, ldata, lattrs, rdata, rattrs) ==
    CHOOSE i \in DOMAIN ldata :
        /\ Total(SubSeq(ldata, 1, i), lattrs, rdata, rattrs) >= k
        /\ \A m \in 1..(i - 1) : Total(SubSeq(ldata, 1, m), lattrs, rdata, rattrs) < k

\* C22 as stated: a natural join, once constructed, has drawn every tuple
\* of its build side and none of its probe side, and at any point after it
\* has emitted a tuple it has drawn exactly the probe tuples up to the one
\* that produced the tuple it emitted last.
C22_NoReadAhead ==
    \A j \in Objects :
        Kind(j) = "join" =>
            /\ heap[2].pos = Len(heap[2].data)
            /\ (\A g \in Objects : Kind(g) = "joingen" => got[g] = <<>> /\ last[g] = "none")
                   => Drawn(j) = 0
            /\ \A g \in Objects :
                   (Kind(g) = "joingen" /\ got[g] # <<>>) =>
                       Drawn(j) = ProbeOf(Len(got[g]), TuplesOf(1), heap[1].attrs,
                                          TuplesOf(2), heap[2].attrs)

\* C22, amended: a natural join, once constructed, has drawn every tuple of
\* its build side and none of its probe side; when it has just emitted a
\* tuple it has drawn exactly the probe tuples up to the one that produced
\* it; when it has signalled its end it has drawn the whole probe side.
C22_JoinLazy ==
    \A j \in Objects :
        Kind(j) = "join" =>
            /\ heap[2].pos = Len(heap[2].data)
            /\ (\A g \in Objects : Kind(g) = "joingen" => last[g] = "none") => Drawn(j) = 0
            /\ \A g \in Objects :
                   /\ (Kind(g) = "joingen" /\ last[g] = "tuple") =>
                          Drawn(j) = ProbeOf(Len(got[g]), TuplesOf(1), heap[1].attrs,
                                             TuplesOf(2), heap[2].attrs)
                   /\ (Kind(g) = "joingen" /\ last[g] \in Finished) =>
                          Drawn(j) = Len(heap[1].data)

\* The join has emitted the one tuple its first probe tuple produces, and
\* the second probe tuple, which has a partner too, is still undrawn in the
\* file.
C22_Witness ==
    \E g \in Objects :
        /\ Kind(g) = "joingen" /\ last[g] = "tuple"
        /\ Kind(1) = "file"
        /\ Len(heap[1].data) = 2
        /\ heap[1].pos = 1
        /\ Len(got[g]) = 1
        /\ Total(TuplesOf(1), heap[1].attrs, TuplesOf(2), heap[2].attrs) = 2
        /\ Len(heap[2].data) = 2

-----------------------------------------------------------------------------
(* A Fold over the in-memory relation (a, b) (object 1), iterated more     *)
(* than once.                                                              *)

InitRefold ==
    /\ \E data \in Tables(AB, MaxRows) : Start(InMemoryRelation_init(<<>>, AB, data).h)
    /\ generator_stop = TRUE

FoldGenerators == {o \in Objects : Kind(o) = "foldgen"}

NextRefold ==
    \/ \E fd \in FoldFds : NoneOfKind("fold") /\ FoldOf(1, fd)
    \/ \E o \in Objects :
           Kind(o) = "fold" /\ Cardinality(FoldGenerators) < MaxDrains /\ Iterate(o)
    \/ \E o \in FoldGenerators : Pull(o)

SpecRefold == InitRefold /\ [][NextRefold]_vars

\* C24: every iteration of a Fold over a restartable input yields the same
\* tuple, the left fold of each function from its declared initial value,
\* whatever iterations came before.
C24_FoldRepeatable ==
    \A g \in FoldGenerators :
        got[g] # <<>> =>
            LET f == heap[g].rels[1]
                fd == made[f].par
            IN  got[g] = <<[i \in DOMAIN fd |->
                              FoldLeft(fd[i][2][1], fd[i][2][2], heap[1].attrs, heap[1].data)]>>

-----------------------------------------------------------------------------
(* Sharing: two lazy operators built over the same file stream (object 1), *)
(* whose lines all differ, and pulled by the client in any interleaving,   *)
(* the second operator built before or after the first was pulled.         *)

SharePredicates == {[name |-> "a", v |-> Int_(11), neg |-> n] : n \in BOOLEAN}

\* The lazy operators built over the file stream
Sharers == {o \in Objects : Kind(o) \in LazyKinds /\ heap[o].itrs = <<1>>}

InitShare ==
    /\ \E data \in Numbered(AB, MaxRows + 1) :
           Start(FileStreamRelation_init(<<>>, AB, AsLines(data)).h)
    /\ generator_stop = TRUE

NextShare ==
    \/ Cardinality(Sharers) < 2 /\ Project(1, <<"b", "a">>)
    \/ \E p \in SharePredicates : Cardinality(Sharers) < 2 /\ Select(1, p)
    \/ Cardinality(Sharers) < 2 /\ RenameTo(1, "a" :> "c")
    \/ \E o \in Sharers : Pull(o)

SpecShare == InitShare /\ [][NextShare]_vars

\* What the operator o emits for the source tuple t, and whether it emits
\* anything for it
Emitted(o, t) ==
    IF Kind(o) = "proj" THEN [i \in DOMAIN made[o].par |-> t[ColumnOf(AB, made[o].par[i])]]
    ELSE t

Passes(o, t) == Kind(o) = "sel" => Holds(made[o].par, AB, t)

\* The tuples o emits when it draws the source tuples that `own` gives it
Share(o, own, src) ==
    LET mine == SelectSeq([i \in DOMAIN own |-> i],
                          LAMBDA i : own[i] = o /\ Passes(o, src[i]))
    IN  [k \in DOMAIN mine |-> Emitted(o, src[mine[k]])]

\* C25: the tuples drawn from a single-pass source so far are divided
\* between the operators built over it: each was drawn by exactly one
\* operator, and every operator has emitted, in source order, what it
\* emits for the tuples it drew.
C25_SharedSource ==
    \E own \in [1..heap[1].pos -> Sharers] :
        \A o \in Sharers : got[o] = Share(o, own, Typed(heap[1].attrs, heap[1].data))

\* A projection and a rename over a file of three lines, pulled in turn:
\* the projection has the first and the third tuple, the rename the second.
C25_Witness ==
    \E p, r \in Sharers :
        /\ Kind(p) = "proj" /\ Kind(r) = "rename"
        /\ Len(heap[1].data) = 3
        /\ got[p] = <<<<Int_(12), Int_(11)>>, <<Int_(32), Int_(31)>>>>
        /\ got[r] = <<<<Int_(21), Int_(22)>>>>

-----------------------------------------------------------------------------
(* Copies: evaluate() and sorted() of the in-memory relation (a, b)        *)
(* (object 1): one copy is made, and then sorted in place any number of    *)
(* times.                                                                  *)

CopyKeys == {None, Names(<<"a">>), Names(<<"b", "a">>), Names(<<"c">>)}

\* The relations evaluate() and sorted() returned
Copies == {c \in Objects : made[c].op \in {"evaluate", "sorted"}}

InitCopy ==
    /\ \E data \in Tables(AB, MaxRows) : Start(InMemoryRelation_init(<<>>, AB, data).h)
    /\ generator_stop = TRUE

NextCopy ==
    \/ NoCall /\ Evaluate(1)
    \/ \E key \in CopyKeys, reverse \in BOOLEAN : NoCall /\ Sorted(1, key, reverse)
    \/ \E c \in Copies, key \in CopyKeys, reverse \in BOOLEAN : Sort(c, key, reverse)

SpecCopy == InitCopy /\ [][NextCopy]_vars

\* C26: evaluate(R) and sorted(R, key, reverse) of an in-memory relation R
\* leave R's schema and the order of its tuples as they were, and so does
\* every in-place sort of a relation they returned.
C26_CopyIndependent ==
    [][/\ heap'[1].attrs = heap[1].attrs
       /\ heap'[1].index = heap[1].index
       /\ heap'[1].data = heap[1].data]_vars

\* A copy made by evaluate() has been sorted in place, descending, into an
\* order that differs from R's, which still has its tuples as loaded.
C26_Witness ==
    \E c \in Copies :
        /\ made[c].op = "evaluate"
        /\ call.op = "sort" /\ call.args = <<c>> /\ call.err = "ok"
        /\ call.par.reverse
        /\ heap[1].data = <<<<Int_(0), Int_(1)>>, <<Int_(1), Int_(0)>>>>
        /\ heap[c].data = <<<<Int_(1), Int_(0)>>, <<Int_(0), Int_(1)>>>>
        /\ heap[c].attrs = heap[1].attrs

====
